---- MODULE Spec2Model ----
(***************************************************************************)
(* A model of the drift comparator of doc-drift-detector                   *)
(* (src/src/comparator.py) and of the value types it reads                 *)
(* (src/src/parser.py, src/src/doc_parser.py).                             *)
(*                                                                         *)
(* Python strings whose characters the code inspects (names, ignore        *)
(* patterns, descriptions, decorators, docstrings) are sequences of        *)
(* one-character strings, so that startswith, endswith, split, lower and   *)
(* the substring test are computed and not assumed.  An Optional value is  *)
(* None (the empty sequence) or Some(x) (the one-element sequence).  A     *)
(* Python dict is a sequence of key/value entries in insertion order with  *)
(* unique keys, as dict iteration order is insertion order.                *)
(***************************************************************************)
EXTENDS Integers, Sequences, FiniteSets, TLC

VARIABLES
    config,          \* Comparator.__init__: ignore_patterns, require_docstrings, check_parameters
    code_results,    \* compare's argument: List[ParseResult]
    doc_results,     \* compare's argument: List[DocParseResult]
    pc,              \* position inside the operation being run
    pos,             \* position of the running for loop inside its index
    code_functions,  \* compare's local: the function index
    code_classes,    \* compare's local: the class index
    doc_items,       \* compare's local: the doc index
    matched_docs,    \* compare's local: set of matched doc names
    issues,          \* result.issues
    stats,           \* result.stats
    call             \* argument and return value of a helper called on its own

vars == <<config, code_results, doc_results, pc, pos, code_functions,
          code_classes, doc_items, matched_docs, issues, stats, call>>

-----------------------------------------------------------------------------
(* Optional values and Python truthiness *)

None == <<>>

Some(x) == <<x>>

\* bool(x) of an Optional[str]: None and the empty string are both falsy
Truthy(opt) == opt # None /\ opt[1] # <<>>

-----------------------------------------------------------------------------
(* str operations *)

\* the upper-case letters of the model's alphabet and their lower-case forms
UpperToLower ==
    [c \in {"A", "C", "D", "E", "F", "G", "L", "M", "P"} |->
        CASE c = "A" -> "a" [] c = "C" -> "c" [] c = "D" -> "d"
          [] c = "E" -> "e" [] c = "F" -> "f" [] c = "G" -> "g"
          [] c = "L" -> "l" [] c = "M" -> "m" [] c = "P" -> "p"]

\* str.lower()
Lower(s) ==
    [i \in DOMAIN s |-> IF s[i] \in DOMAIN UpperToLower THEN UpperToLower[s[i]] ELSE s[i]]

\* s.startswith(p)
StartsWith(s, p) == Len(p) <= Len(s) /\ SubSeq(s, 1, Len(p)) = p

\* s.endswith(p)
EndsWith(s, p) == Len(p) <= Len(s) /\ SubSeq(s, Len(s) - Len(p) + 1, Len(s)) = p

\* sub in s
Contains(s, sub) ==
    \E i \in 1..(Len(s) - Len(sub) + 1) : SubSeq(s, i, i + Len(sub) - 1) = sub

\* s[:-1]
DropLast(s) == SubSeq(s, 1, Len(s) - 1)

\* s[1:]
DropFirst(s) == SubSeq(s, 2, Len(s))

\* s.split('.')[-1]: the text after the last '.', the whole of s when it has none
LastSegment(s) ==
    LET dots == {i \in DOMAIN s : s[i] = "."}
    IN  IF dots = {} THEN s
        ELSE SubSeq(s, (CHOOSE i \in dots : \A j \in dots : j <= i) + 1, Len(s))

-----------------------------------------------------------------------------
(* dict operations: a sequence of [k, v] entries, keys unique, insertion order *)

DictHas(d, k) == \E i \in DOMAIN d : d[i].k = k

DictGet(d, k) == d[CHOOSE i \in DOMAIN d : d[i].k = k].v

\* d[k] = v: an existing key keeps its position and takes the new value
DictPut(d, k, v) ==
    IF DictHas(d, k)
    THEN [i \in DOMAIN d |-> IF d[i].k = k THEN [k |-> k, v |-> v] ELSE d[i]]
    ELSE Append(d, [k |-> k, v |-> v])

DictKeys(d) == {d[i].k : i \in DOMAIN d}

-----------------------------------------------------------------------------
(* Comparator._should_ignore *)

PatternMatchesPrefixOnly(pattern, name) ==
    IF EndsWith(pattern, <<"*">>)
    THEN StartsWith(name, DropLast(pattern))
    ELSE name = pattern

\* one iteration of the loop: does this pattern make the function return True
PatternMatches(pattern, name) ==
    IF EndsWith(pattern, <<"*">>)
    THEN StartsWith(name, DropLast(pattern))
    ELSE IF StartsWith(pattern, <<"*">>)
         THEN EndsWith(name, DropFirst(pattern))
         ELSE name = pattern

\* True at the first pattern that matches, False when the loop runs out
ShouldIgnore(name, ignore_patterns) ==
    \E i \in DOMAIN ignore_patterns : PatternMatches(ignore_patterns[i], name)

-----------------------------------------------------------------------------
(* FunctionSignature.full_name *)

FullName(func) ==
    IF Truthy(func.class_name)
    THEN func.class_name[1] \o <<".">> \o func.name
    ELSE func.name

-----------------------------------------------------------------------------
(* Comparator._index_functions, _index_classes, _index_doc_items *)

\* the body of "for func in result.functions", from the i-th function on
RECURSIVE IndexFunctionList(_, _, _)
IndexFunctionList(index, functions, i) ==
    IF i > Len(functions) THEN index
    ELSE LET func == functions[i]
             byFull == DictPut(index, FullName(func), func)
             byShort == IF Truthy(func.class_name)
                        THEN DictPut(byFull, func.name, func)
                        ELSE byFull
         IN  IndexFunctionList(byShort, functions, i + 1)

\* the body of "for method in cls.methods", from the i-th method on
RECURSIVE IndexMethodList(_, _, _)
IndexMethodList(index, methods, i) ==
    IF i > Len(methods) THEN index
    ELSE IndexMethodList(DictPut(index, FullName(methods[i]), methods[i]),
                         methods, i + 1)

\* the body of "for cls in result.classes", from the i-th class on
RECURSIVE IndexClassMethods(_, _, _)
IndexClassMethods(index, classes, i) ==
    IF i > Len(classes) THEN index
    ELSE IndexClassMethods(IndexMethodList(index, classes[i].methods, 1),
                           classes, i + 1)

RECURSIVE IndexFunctionsFirstResultOnly(_, _, _)
IndexFunctionsFirstResultOnly(index, results, r) ==
    IF r > Len(results) THEN index
    ELSE IndexClassMethods(
            IndexFunctionList(index, results[r].functions, 1),
            results[r].classes, 1)

RECURSIVE IndexFunctionsFrom(_, _, _)
IndexFunctionsFrom(index, results, r) ==
    IF r > Len(results) THEN index
    ELSE IndexFunctionsFrom(
            IndexClassMethods(
                IndexFunctionList(index, results[r].functions, 1),
                results[r].classes, 1),
            results, r + 1)

IndexFunctions(results) == IndexFunctionsFrom(<<>>, results, 1)

RECURSIVE IndexClassList(_, _, _)
IndexClassList(index, classes, i) ==
    IF i > Len(classes) THEN index
    ELSE IndexClassList(DictPut(index, classes[i].name, classes[i]), classes, i + 1)

RECURSIVE IndexClassesFrom(_, _, _)
IndexClassesFrom(index, results, r) ==
    IF r > Len(results) THEN index
    ELSE IndexClassesFrom(IndexClassList(index, results[r].classes, 1), results, r + 1)

IndexClasses(results) == IndexClassesFrom(<<>>, results, 1)

RECURSIVE IndexItemList(_, _, _)
IndexItemList(index, items, i) ==
    IF i > Len(items) THEN index
    ELSE IndexItemList(DictPut(index, items[i].name, items[i]), items, i + 1)

RECURSIVE IndexDocItemsFrom(_, _, _)
IndexDocItemsFrom(index, results, r) ==
    IF r > Len(results) THEN index
    ELSE IndexDocItemsFrom(IndexItemList(index, results[r].items, 1), results, r + 1)

IndexDocItems(results) == IndexDocItemsFrom(<<>>, results, 1)

-----------------------------------------------------------------------------
(* Comparator._find_doc_item: None, or Some(the doc item) *)

FindDocItemExactOnly(name, items) ==
    IF DictHas(items, name) THEN Some(DictGet(items, name)) ELSE None

FindDocItem(name, items) ==
    IF DictHas(items, name)
    THEN Some(DictGet(items, name))
    ELSE IF Contains(name, <<".">>) /\ DictHas(items, LastSegment(name))
         THEN Some(DictGet(items, LastSegment(name)))
         ELSE LET hits == {i \in DOMAIN items : Lower(items[i].k) = Lower(name)}
              IN  IF hits = {} THEN None
                  ELSE Some(items[CHOOSE i \in hits : \A j \in hits : i <= j].v)

-----------------------------------------------------------------------------
(* Comparator._is_external_reference *)

external_hints ==
    << <<"e","x","t","e","r","n","a","l">>,
       <<"t","h","i","r","d","-","p","a","r","t","y">>,
       <<"l","i","b","r","a","r","y">>,
       <<"p","a","c","k","a","g","e">> >>

api_endpoint == <<"a","p","i","_","e","n","d","p","o","i","n","t">>

IsExternalReference(doc_item) ==
    IF doc_item.doc_type = api_endpoint THEN TRUE
    ELSE IF Truthy(doc_item.description)
         THEN \E h \in DOMAIN external_hints :
                 Contains(Lower(doc_item.description[1]), external_hints[h])
         ELSE FALSE

-----------------------------------------------------------------------------
(* Comparator._get_severity_for_undocumented *)

GetSeverityForUndocumented(func) ==
    IF ~StartsWith(func.name, <<"_">>)
    THEN IF \E d \in DOMAIN func.decorators :
               \/ Contains(Lower(func.decorators[d]), <<"a","p","i">>)
               \/ Contains(Lower(func.decorators[d]), <<"p","u","b","l","i","c">>)
         THEN "CRITICAL"
         ELSE "WARNING"
    ELSE "INFO"

-----------------------------------------------------------------------------
(* DriftIssue: the fields compare sets; message and suggestion are text    *)
(* formatted from the same values and are left out.                        *)

Issue(drift_type, severity, item_name, code_location, code_line, doc_location, doc_line, details) ==
    [drift_type |-> drift_type, severity |-> severity, item_name |-> item_name,
     code_location |-> code_location, code_line |-> code_line,
     doc_location |-> doc_location, doc_line |-> doc_line, details |-> details]

HasDeprecation(decorators) ==
    \E d \in DOMAIN decorators :
        Contains(Lower(decorators[d]), <<"d","e","p","r","e","c","a","t">>)

\* the deprecation part of _check_function_drift: the issues it adds
DeprecationIssues(full_name, filepath, line_number, decorators, doc_item) ==
    IF doc_item.deprecated /\ ~HasDeprecation(decorators)
    THEN << Issue("MISSING_DEPRECATION_NOTICE", "INFO", full_name,
                  Some(filepath), Some(line_number), None, None, {}) >>
    ELSE <<>>

ParamNames(parameters) == {parameters[i] : i \in DOMAIN parameters}

ParameterIssuesUnguarded(func, doc_item, check_parameters) ==
    LET doc_param_names == ParamNames(doc_item.parameters)
        code_param_names == ParamNames(func.parameters) \ {"self"}
        missing_in_docs == code_param_names \ doc_param_names
        extra_in_docs == doc_param_names \ code_param_names
    IN  IF check_parameters
        THEN (IF missing_in_docs # {}
              THEN << Issue("PARAMETER_MISMATCH", "WARNING", FullName(func),
                            Some(func.filepath), Some(func.line_number),
                            Some(doc_item.filepath), Some(doc_item.line_number),
                            {<<"missing_params", missing_in_docs>>}) >>
              ELSE <<>>)
             \o
             (IF extra_in_docs # {}
              THEN << Issue("PARAMETER_MISMATCH", "CRITICAL", FullName(func),
                            Some(func.filepath), Some(func.line_number),
                            Some(doc_item.filepath), Some(doc_item.line_number),
                            {<<"extra_params", extra_in_docs>>}) >>
              ELSE <<>>)
        ELSE <<>>

\* the parameter part of _check_function_drift: the issues it adds
ParameterIssues(func, doc_item, check_parameters) ==
    LET doc_param_names == ParamNames(doc_item.parameters)
        code_param_names == ParamNames(func.parameters) \ {"self"}
        missing_in_docs == code_param_names \ doc_param_names
        extra_in_docs == doc_param_names \ code_param_names
    IN  IF check_parameters /\ doc_item.parameters # <<>>
        THEN (IF missing_in_docs # {}
              THEN << Issue("PARAMETER_MISMATCH", "WARNING", FullName(func),
                            Some(func.filepath), Some(func.line_number),
                            Some(doc_item.filepath), Some(doc_item.line_number),
                            {<<"missing_params", missing_in_docs>>}) >>
              ELSE <<>>)
             \o
             (IF extra_in_docs # {}
              THEN << Issue("PARAMETER_MISMATCH", "CRITICAL", FullName(func),
                            Some(func.filepath), Some(func.line_number),
                            Some(doc_item.filepath), Some(doc_item.line_number),
                            {<<"extra_params", extra_in_docs>>}) >>
              ELSE <<>>)
        ELSE <<>>

\* Comparator._check_function_drift: the issues it adds to the result
CheckFunctionDrift(func, doc_item, check_parameters) ==
    ParameterIssues(func, doc_item, check_parameters)
    \o DeprecationIssues(FullName(func), func.filepath, func.line_number,
                         func.decorators, doc_item)

\* Comparator._check_class_drift: the issues it adds to the result
CheckClassDrift(cls, doc_item) ==
    DeprecationIssues(cls.name, cls.filepath, cls.line_number, cls.decorators, doc_item)

-----------------------------------------------------------------------------
(* Comparator.compare, one step per iteration of its three loops *)

ComputeStatsFunctionsOnly(functions, classes, items, matched) ==
    [total_functions |-> Len(functions),
     total_classes |-> Len(classes),
     total_documented |-> Len(items),
     matched |-> Cardinality(matched),
     undocumented |-> Len(functions) - Cardinality(matched)]

\* the stats dict compare builds after the loops
ComputeStats(functions, classes, items, matched) ==
    [total_functions |-> Len(functions),
     total_classes |-> Len(classes),
     total_documented |-> Len(items),
     matched |-> Cardinality(matched),
     undocumented |-> Len(functions) + Len(classes) - Cardinality(matched)]

\* where control is when the loop `phase` is about to take entry p: in that
\* loop, or in the first later loop that has an entry, or past all of them
Position(phase, p, nf, nc, nd) ==
    LET pf == IF phase = "functions" THEN p ELSE nf + 1
        pk == IF phase = "classes" THEN p ELSE IF phase = "functions" THEN 1 ELSE nc + 1
        pd == IF phase = "orphans" THEN p ELSE 1
    IN  IF pf <= nf THEN [pc |-> "functions", pos |-> pf]
        ELSE IF pk <= nc THEN [pc |-> "classes", pos |-> pk]
        ELSE IF pd <= nd THEN [pc |-> "orphans", pos |-> pd]
        ELSE [pc |-> "done", pos |-> 0]

\* move on to entry p of loop `phase`; past the last loop, set the stats and return
Continue(phase, p, functions, classes, items, matched) ==
    LET next == Position(phase, p, Len(functions), Len(classes), Len(items))
    IN  /\ pc' = next.pc
        /\ pos' = next.pos
        /\ stats' = IF next.pc = "done"
                    THEN Some(ComputeStats(functions, classes, items, matched))
                    ELSE stats

\* lines 112-120: the result, the three indexes and the empty matched set
BuildIndexes ==
    /\ pc = "start"
    /\ code_functions' = IndexFunctions(code_results)
    /\ code_classes' = IndexClasses(code_results)
    /\ doc_items' = IndexDocItems(doc_results)
    /\ matched_docs' = {}
    /\ issues' = <<>>
    /\ Continue("functions", 1, code_functions', code_classes', doc_items', {})
    /\ UNCHANGED <<config, code_results, doc_results, call>>

FunctionStepNoIgnore(name, func, cfg, items) ==
    LET doc_item == FindDocItem(name, items)
    IN  IF doc_item # None
        THEN [matched |-> {doc_item[1].name},
              issues |-> CheckFunctionDrift(func, doc_item[1], cfg.check_parameters)]
        ELSE IF ~Truthy(func.docstring) /\ cfg.require_docstrings
             THEN [matched |-> {},
                   issues |-> << Issue("UNDOCUMENTED_FUNCTION",
                                       GetSeverityForUndocumented(func), name,
                                       Some(func.filepath), Some(func.line_number),
                                       None, None, {}) >>]
             ELSE [matched |-> {}, issues |-> <<>>]

FunctionStepNoDocstringTest(name, func, cfg, items) ==
    IF ShouldIgnore(name, cfg.ignore_patterns)
    THEN [matched |-> {}, issues |-> <<>>]
    ELSE LET doc_item == FindDocItem(name, items)
         IN  IF doc_item # None
             THEN [matched |-> {doc_item[1].name},
                   issues |-> CheckFunctionDrift(func, doc_item[1], cfg.check_parameters)]
             ELSE [matched |-> {},
                   issues |-> << Issue("UNDOCUMENTED_FUNCTION",
                                       GetSeverityForUndocumented(func), name,
                                       Some(func.filepath), Some(func.line_number),
                                       None, None, {}) >>]

\* the body of "for name, func in code_functions.items()": the doc names it
\* adds to matched_docs and the issues it adds to the result
FunctionStep(name, func, cfg, items) ==
    IF ShouldIgnore(name, cfg.ignore_patterns)
    THEN [matched |-> {}, issues |-> <<>>]
    ELSE LET doc_item == FindDocItem(name, items)
         IN  IF doc_item # None
             THEN [matched |-> {doc_item[1].name},
                   issues |-> CheckFunctionDrift(func, doc_item[1], cfg.check_parameters)]
             ELSE IF ~Truthy(func.docstring) /\ cfg.require_docstrings
                  THEN [matched |-> {},
                        issues |-> << Issue("UNDOCUMENTED_FUNCTION",
                                            GetSeverityForUndocumented(func), name,
                                            Some(func.filepath), Some(func.line_number),
                                            None, None, {}) >>]
                  ELSE [matched |-> {}, issues |-> <<>>]

ClassStepNoIgnore(name, cls, cfg, items) ==
    LET doc_item == FindDocItem(name, items)
    IN  IF doc_item # None
        THEN [matched |-> {doc_item[1].name},
              issues |-> CheckClassDrift(cls, doc_item[1])]
        ELSE IF ~Truthy(cls.docstring) /\ cfg.require_docstrings
             THEN [matched |-> {},
                   issues |-> << Issue("UNDOCUMENTED_CLASS", "WARNING", name,
                                       Some(cls.filepath), Some(cls.line_number),
                                       None, None, {}) >>]
             ELSE [matched |-> {}, issues |-> <<>>]

ClassStepNoDocstringTest(name, cls, cfg, items) ==
    IF ShouldIgnore(name, cfg.ignore_patterns)
    THEN [matched |-> {}, issues |-> <<>>]
    ELSE LET doc_item == FindDocItem(name, items)
         IN  IF doc_item # None
             THEN [matched |-> {doc_item[1].name},
                   issues |-> CheckClassDrift(cls, doc_item[1])]
             ELSE [matched |-> {},
                   issues |-> << Issue("UNDOCUMENTED_CLASS", "WARNING", name,
                                       Some(cls.filepath), Some(cls.line_number),
                                       None, None, {}) >>]

\* the body of "for name, cls in code_classes.items()"
ClassStep(name, cls, cfg, items) ==
    IF ShouldIgnore(name, cfg.ignore_patterns)
    THEN [matched |-> {}, issues |-> <<>>]
    ELSE LET doc_item == FindDocItem(name, items)
         IN  IF doc_item # None
             THEN [matched |-> {doc_item[1].name},
                   issues |-> CheckClassDrift(cls, doc_item[1])]
             ELSE IF ~Truthy(cls.docstring) /\ cfg.require_docstrings
                  THEN [matched |-> {},
                        issues |-> << Issue("UNDOCUMENTED_CLASS", "WARNING", name,
                                            Some(cls.filepath), Some(cls.line_number),
                                            None, None, {}) >>]
                  ELSE [matched |-> {}, issues |-> <<>>]

OrphanStepNoCodeTest(name, doc_item, matched, functions, classes) ==
    IF name \notin matched /\ ~IsExternalReference(doc_item)
    THEN << Issue("MISSING_FROM_CODE", "CRITICAL", name, None, None,
                  Some(doc_item.filepath), Some(doc_item.line_number), {}) >>
    ELSE <<>>

\* the body of "for name, doc_item in doc_items.items()": the issues it adds
OrphanStep(name, doc_item, matched, functions, classes) ==
    IF /\ name \notin matched
       /\ ~DictHas(functions, name) /\ ~DictHas(classes, name)
       /\ ~IsExternalReference(doc_item)
    THEN << Issue("MISSING_FROM_CODE", "CRITICAL", name, None, None,
                  Some(doc_item.filepath), Some(doc_item.line_number), {}) >>
    ELSE <<>>

\* lines 122-144: one iteration of the loop over the function index
CheckFunction ==
    /\ pc = "functions"
    /\ LET step == FunctionStep(code_functions[pos].k, code_functions[pos].v,
                                config, doc_items)
       IN  /\ matched_docs' = matched_docs \cup step.matched
           /\ issues' = issues \o step.issues
    /\ Continue("functions", pos + 1, code_functions, code_classes, doc_items,
                matched_docs')
    /\ UNCHANGED <<config, code_results, doc_results, code_functions,
                   code_classes, doc_items, call>>

CheckClassPrepend ==
    /\ pc = "classes"
    /\ LET step == ClassStep(code_classes[pos].k, code_classes[pos].v,
                             config, doc_items)
       IN  /\ matched_docs' = matched_docs \cup step.matched
           /\ issues' = step.issues \o issues
    /\ Continue("classes", pos + 1, code_functions, code_classes, doc_items,
                matched_docs')
    /\ UNCHANGED <<config, code_results, doc_results, code_functions,
                   code_classes, doc_items, call>>

\* lines 146-166: one iteration of the loop over the class index
CheckClass ==
    /\ pc = "classes"
    /\ LET step == ClassStep(code_classes[pos].k, code_classes[pos].v,
                             config, doc_items)
       IN  /\ matched_docs' = matched_docs \cup step.matched
           /\ issues' = issues \o step.issues
    /\ Continue("classes", pos + 1, code_functions, code_classes, doc_items,
                matched_docs')
    /\ UNCHANGED <<config, code_results, doc_results, code_functions,
                   code_classes, doc_items, call>>

\* lines 168-182: one iteration of the loop over the doc index
CheckDocItem ==
    /\ pc = "orphans"
    /\ issues' = issues \o OrphanStep(doc_items[pos].k, doc_items[pos].v,
                                      matched_docs, code_functions, code_classes)
    /\ Continue("orphans", pos + 1, code_functions, code_classes, doc_items,
                matched_docs)
    /\ UNCHANGED <<config, code_results, doc_results, code_functions,
                   code_classes, doc_items, matched_docs, call>>

-----------------------------------------------------------------------------
(* the helpers called on their own *)

CallShouldIgnore ==
    /\ pc = "should_ignore"
    /\ call' = [call EXCEPT !.ret = Some(ShouldIgnore(call.name, config.ignore_patterns))]
    /\ pc' = "returned"
    /\ UNCHANGED <<config, code_results, doc_results, pos, code_functions,
                   code_classes, doc_items, matched_docs, issues, stats>>

CallFindDocItem ==
    /\ pc = "find_doc_item"
    /\ call' = [call EXCEPT !.ret = Some(FindDocItem(call.name, doc_items))]
    /\ pc' = "returned"
    /\ UNCHANGED <<config, code_results, doc_results, pos, code_functions,
                   code_classes, doc_items, matched_docs, issues, stats>>

-----------------------------------------------------------------------------
(* Comparator.__init__: the configurations *)

\* the ignore_patterns of a Comparator built without a configuration
default_ignore_patterns ==
    << <<"_","_","i","n","i","t","_","_">>,
       <<"_","_","s","t","r","_","_">>,
       <<"_","_","r","e","p","r","_","_">>,
       <<"_","_","e","q","_","_">>,
       <<"_","_","h","a","s","h","_","_">>,
       <<"_","*">> >>

\* Comparator(config): config.get with the defaults of __init__
Comparator(ignore_patterns, require_docstrings, check_parameters) ==
    [ignore_patterns |-> ignore_patterns,
     require_docstrings |-> require_docstrings,
     check_parameters |-> check_parameters]

Configs ==
    { Comparator(default_ignore_patterns, TRUE, TRUE),
      Comparator(<<>>, TRUE, TRUE),
      Comparator(<< <<"*","m">>, <<"f">> >>, TRUE, TRUE),
      Comparator(<<>>, FALSE, TRUE) }

-----------------------------------------------------------------------------
(* the inputs of compare: extraction results built from small catalogs *)

\* the number of functions, classes and doc items of one input
MaxItems == 3

FunctionSignature(name, line_number, parameters, docstring, class_name, decorators) ==
    [name |-> name, filepath |-> "a.py", line_number |-> line_number,
     parameters |-> parameters, docstring |-> docstring,
     class_name |-> class_name, decorators |-> decorators]

ClassSignature(name, line_number, docstring, methods, decorators) ==
    [name |-> name, filepath |-> "a.py", line_number |-> line_number,
     docstring |-> docstring, methods |-> methods, decorators |-> decorators]

DocumentedItem(name, line_number, doc_type, description, parameters, deprecated) ==
    [name |-> name, filepath |-> "a.md", line_number |-> line_number,
     doc_type |-> doc_type, description |-> description,
     parameters |-> parameters, deprecated |-> deprecated]

function == <<"f","u","n","c","t","i","o","n">>

FunctionCatalog ==
    { FunctionSignature(<<"f">>, 1, <<"a", "b">>, None, None, <<>>),
      FunctionSignature(<<"f">>, 2, <<"a">>, Some(<<"d">>), None, <<>>),
      FunctionSignature(<<"_","g">>, 3, <<>>, None, None, <<>>),
      FunctionSignature(<<"m">>, 4, <<"self", "a">>, None, Some(<<"C">>), <<>>),
      FunctionSignature(<<"F">>, 5, <<>>, Some(<<>>), None, <<>>) }

ClassCatalog ==
    { ClassSignature(<<"C">>, 6, None,
          << FunctionSignature(<<"m">>, 7, <<"self">>, None, Some(<<"C">>), <<>>) >>,
          <<>>),
      ClassSignature(<<"D">>, 8, Some(<<"d">>),
          << FunctionSignature(<<"_","g">>, 9, <<"self">>, None, Some(<<"D">>), <<>>) >>,
          <<>>) }

DocCatalog ==
    { DocumentedItem(<<"f">>, 1, function, None, <<"a">>, FALSE),
      DocumentedItem(<<"m">>, 2, function, Some(<<"x">>), <<>>, TRUE),
      DocumentedItem(<<"F">>, 3, function, None, <<>>, FALSE),
      DocumentedItem(<<"h">>, 4, function, Some(<<>>), <<>>, FALSE),
      DocumentedItem(<<"h">>, 5, function,
                     Some(<<"A"," ","L","i","b","r","a","r","y">>), <<>>, FALSE),
      DocumentedItem(<<"G","E","T"," ","/">>, 6, api_endpoint, None, <<>>, FALSE),
      DocumentedItem(<<"_","g">>, 7, function, None, <<>>, FALSE),
      DocumentedItem(<<"C">>, 8, <<"c","l","a","s","s">>, None, <<>>, TRUE) }

\* the lists of length n over S
ListsOf(S, n) == [1..n -> S]

\* the ParseResults that hold w functions and classes (w >= 1)
ParseResults(functions, classes, w) ==
    UNION { { [functions |-> fs, classes |-> cs] :
                fs \in ListsOf(functions, a), cs \in ListsOf(classes, w - a) } :
            a \in 0..w }

\* the lists of non-empty ParseResults that hold w functions and classes
RECURSIVE CodeResults(_, _, _)
CodeResults(functions, classes, w) ==
    IF w = 0 THEN {<<>>}
    ELSE UNION { { <<r>> \o rest : r \in ParseResults(functions, classes, x),
                                   rest \in CodeResults(functions, classes, w - x) } :
                 x \in 1..w }

\* no documentation file, or one DocParseResult that holds w >= 1 items
DocResults(items, w) ==
    IF w = 0 THEN {<<>>} ELSE { << [items |-> is] >> : is \in ListsOf(items, w) }

\* the state in which compare is called
Init ==
    /\ pc = "start"
    /\ pos = 0
    /\ config \in Configs
    /\ \E a \in 0..MaxItems : \E b \in 0..(MaxItems - a) :
          /\ code_results \in CodeResults(FunctionCatalog, ClassCatalog, a)
          /\ doc_results \in DocResults(DocCatalog, b)
    /\ code_functions = <<>>
    /\ code_classes = <<>>
    /\ doc_items = <<>>
    /\ matched_docs = {}
    /\ issues = <<>>
    /\ stats = None
    /\ call = None

Next == BuildIndexes \/ CheckFunction \/ CheckClass \/ CheckDocItem

Spec == Init /\ [][Next]_vars

-----------------------------------------------------------------------------
(* _should_ignore called on its own, over every name and pattern list *)

\* the length of a name
MaxNameLen == 3

\* the number of characters of a pattern list, all patterns together
MaxPatternChars == 3

NameChars == {"_", "f", "."}

PatternChars == {"_", "f", "*"}

\* the names of at most n characters: identifiers, or identifiers joined by '.'
Names(chars, n) ==
    { s \in UNION { ListsOf(chars, k) : k \in 1..n } :
        /\ s[1] # "." /\ s[Len(s)] # "."
        /\ \A i \in 1..(Len(s) - 1) : ~(s[i] = "." /\ s[i + 1] = ".") }

\* the lists of non-empty patterns that hold w characters in all
RECURSIVE PatternLists(_)
PatternLists(w) ==
    IF w = 0 THEN {<<>>}
    ELSE UNION { { <<p>> \o rest : p \in ListsOf(PatternChars, x),
                                   rest \in PatternLists(w - x) } :
                 x \in 1..w }

InitShouldIgnore ==
    /\ pc = "should_ignore"
    /\ pos = 0
    /\ \E w \in 0..MaxPatternChars : \E ps \in PatternLists(w) :
          config = Comparator(ps, TRUE, TRUE)
    /\ \E n \in Names(NameChars, MaxNameLen) :
          call = [fn |-> "_should_ignore", name |-> n, ret |-> None]
    /\ code_results = <<>>
    /\ doc_results = <<>>
    /\ code_functions = <<>>
    /\ code_classes = <<>>
    /\ doc_items = <<>>
    /\ matched_docs = {}
    /\ issues = <<>>
    /\ stats = None

SpecShouldIgnore == InitShouldIgnore /\ [][CallShouldIgnore]_vars

\* the rule of the ignore-pattern semantics for one pattern p and one name n
IgnoreRule(p, n) ==
    \/ p # <<>> /\ p[Len(p)] = "*" /\ StartsWith(n, SubSeq(p, 1, Len(p) - 1))
    \/ p # <<>> /\ p[1] = "*" /\ EndsWith(n, SubSeq(p, 2, Len(p)))
    \/ n = p

\* a name is ignored when some configured pattern matches it
Ignored(n, S) == \E i \in DOMAIN S : IgnoreRule(S[i], n)

\* C4 (ignore correctness): _should_ignore(n) with ignore_patterns = S returns
\* True if and only if some pattern of S matches n by the prefix, suffix or
\* equality rule, and False otherwise; with S empty it returns False.
C4_IgnoreCorrectness ==
    (pc = "returned" /\ call.fn = "_should_ignore") =>
        /\ call.ret = Some(Ignored(call.name, config.ignore_patterns))
        /\ (config.ignore_patterns = <<>> => call.ret = Some(FALSE))

\* a name ignored by a suffix pattern alone
C4_Witness ==
    /\ pc = "returned" /\ call.fn = "_should_ignore"
    /\ call.ret = Some(TRUE)
    /\ Len(config.ignore_patterns) = 2
    /\ \A i \in DOMAIN config.ignore_patterns :
          LET p == config.ignore_patterns[i]
          IN  p[Len(p)] # "*" /\ p # call.name
    /\ \E i \in DOMAIN config.ignore_patterns :
          config.ignore_patterns[i][1] = "*"

-----------------------------------------------------------------------------
(* _find_doc_item called on its own, over doc indexes of colliding names *)

\* the number of doc items of the documentation the doc index is built from
MaxFindDocs == 3

FindDocCatalog ==
    { DocumentedItem(<<"m">>, 1, function, None, <<>>, FALSE),
      DocumentedItem(<<"M">>, 2, function, None, <<>>, FALSE),
      DocumentedItem(<<"C",".","m">>, 3, function, None, <<>>, FALSE),
      DocumentedItem(<<"c",".","m">>, 4, function, None, <<>>, FALSE),
      DocumentedItem(<<"c",".","M">>, 5, function, None, <<>>, FALSE) }

FindNames ==
    { <<"m">>, <<"M">>, <<"C",".","m">>, <<"C",".","M">>, <<"c",".","m">>,
      <<"D",".","m">>, <<"f">> }

InitFindDocItem ==
    /\ pc = "find_doc_item"
    /\ pos = 0
    /\ config = Comparator(default_ignore_patterns, TRUE, TRUE)
    /\ \E w \in 0..MaxFindDocs : doc_results \in DocResults(FindDocCatalog, w)
    /\ doc_items = IndexDocItems(doc_results)
    /\ \E n \in FindNames :
          call = [fn |-> "_find_doc_item", name |-> n, ret |-> None]
    /\ code_results = <<>>
    /\ code_functions = <<>>
    /\ code_classes = <<>>
    /\ matched_docs = {}
    /\ issues = <<>>
    /\ stats = None

SpecFindDocItem == InitFindDocItem /\ [][CallFindDocItem]_vars

\* the doc items of a doc index D
ItemsOf(D) == {D[i].v : i \in DOMAIN D}

\* the doc names of a doc index D
NamesOf(D) == {D[i].k : i \in DOMAIN D}

\* D[n]: the item the index holds under the name n
ItemNamed(D, n) == CHOOSE e \in ItemsOf(D) : \E i \in DOMAIN D : D[i].k = n /\ D[i].v = e

\* n is qualified: it contains a '.'
Qualified(n) == \E i \in DOMAIN n : n[i] = "."

\* the unqualified last segment of a qualified name: what follows its last '.'
Unqualified(n) ==
    CHOOSE s \in {SubSeq(n, i + 1, Len(n)) : i \in DOMAIN n} :
        /\ ~Qualified(s)
        /\ n[Len(n) - Len(s)] = "."

\* C8 (name-matching policy): _find_doc_item(n, D) returns D[n] if n is a key
\* of D; otherwise D[s] if n is qualified and its last segment s is a key of
\* D; otherwise a doc item whose name equals n case-insensitively, if there is
\* one; otherwise nothing.  The first successful step wins.
C8_NameMatchingPolicy ==
    (pc = "returned" /\ call.fn = "_find_doc_item") =>
        LET n == call.name
            D == doc_items
            r == call.ret[1]
        IN  IF n \in NamesOf(D)
            THEN r = Some(ItemNamed(D, n))
            ELSE IF Qualified(n) /\ Unqualified(n) \in NamesOf(D)
                 THEN r = Some(ItemNamed(D, Unqualified(n)))
                 ELSE IF \E e \in ItemsOf(D) : Lower(e.name) = Lower(n)
                      THEN /\ r # None
                           /\ r[1] \in ItemsOf(D)
                           /\ Lower(r[1].name) = Lower(n)
                      ELSE r = None

\* a suffix match is returned although the index also holds a case-insensitive
\* candidate for the full name
C8_Witness ==
    /\ pc = "returned" /\ call.fn = "_find_doc_item"
    /\ call.name = <<"C",".","M">>
    /\ <<"c",".","M">> \in NamesOf(doc_items)
    /\ <<"M">> \in NamesOf(doc_items)
    /\ call.ret = Some(Some(ItemNamed(doc_items, <<"M">>)))

-----------------------------------------------------------------------------
(* the claims about Comparator.compare *)

Done == pc = "done"

Entries(index) == {index[i] : i \in DOMAIN index}

\* the number of issues of one drift type that carry one item name
IssueCount(drift_type, item_name) ==
    Cardinality({i \in DOMAIN issues :
                    /\ issues[i].drift_type = drift_type
                    /\ issues[i].item_name = item_name})

\* the code functions and classes of the indexes that no ignore pattern excludes
CheckedEntries ==
    {e \in Entries(code_functions) \cup Entries(code_classes) :
        ~Ignored(e.k, config.ignore_patterns)}

\* the doc names the name-matching policy returned for a checked code entry
PolicyMatched ==
    {FindDocItem(e.k, doc_items)[1].name :
        e \in {x \in CheckedEntries : FindDocItem(x.k, doc_items) # None}}

\* an external reference: an API endpoint, or a description with a hint word
ExternalReference(d) ==
    \/ d.doc_type = <<"a","p","i","_","e","n","d","p","o","i","n","t">>
    \/ /\ d.description # None
       /\ \E hint \in { <<"e","x","t","e","r","n","a","l">>,
                        <<"t","h","i","r","d","-","p","a","r","t","y">>,
                        <<"l","i","b","r","a","r","y">>,
                        <<"p","a","c","k","a","g","e">> } :
             Contains(Lower(d.description[1]), hint)

\* C1: compare emits a MISSING_FROM_CODE issue for a doc-index item d if and
\* only if d's name was returned by the name-matching policy for no
\* non-ignored code function or class, is a key of neither code index, and d
\* is not an external reference; each such d yields exactly one issue, at
\* CRITICAL, with item_name equal to d's name.
C1_MissingFromCode ==
    Done =>
        /\ \A d \in Entries(doc_items) :
              IssueCount("MISSING_FROM_CODE", d.v.name) =
                  IF /\ d.v.name \notin PolicyMatched
                     /\ d.v.name \notin DictKeys(code_functions) \cup DictKeys(code_classes)
                     /\ ~ExternalReference(d.v)
                  THEN 1 ELSE 0
        /\ \A i \in DOMAIN issues :
              issues[i].drift_type = "MISSING_FROM_CODE" =>
                  /\ issues[i].severity = "CRITICAL"
                  /\ issues[i].item_name \in DictKeys(doc_items)

\* a ghost doc item is reported while an unmatched doc item that names an
\* ignored code function is not
C1_Witness ==
    /\ Done
    /\ \E i \in DOMAIN issues : issues[i].drift_type = "MISSING_FROM_CODE"
    /\ \E d \in Entries(doc_items) :
          /\ d.k \notin PolicyMatched
          /\ d.k \in DictKeys(code_functions)
          /\ ~ExternalReference(d.v)

\* a function without a docstring: None, or the empty text
NoDocstring(f) == f.docstring = None \/ f.docstring = Some(<<>>)

\* C2: compare emits an UNDOCUMENTED_FUNCTION issue for a function-index entry
\* named n if and only if n matches no ignore pattern, the policy finds no doc
\* item for n, the function has no docstring (an empty one counts as none) and
\* require_docstrings is true; exactly one per such entry, with item_name n.
C2_UndocumentedFunction ==
    Done =>
        /\ \A e \in Entries(code_functions) :
              IssueCount("UNDOCUMENTED_FUNCTION", e.k) =
                  IF /\ ~Ignored(e.k, config.ignore_patterns)
                     /\ FindDocItem(e.k, doc_items) = None
                     /\ NoDocstring(e.v)
                     /\ config.require_docstrings
                  THEN 1 ELSE 0
        /\ \A i \in DOMAIN issues :
              issues[i].drift_type = "UNDOCUMENTED_FUNCTION" =>
                  issues[i].item_name \in DictKeys(code_functions)

\* one function is reported and another, unmatched but with a docstring, is not
C2_Witness ==
    /\ Done
    /\ \E i \in DOMAIN issues : issues[i].drift_type = "UNDOCUMENTED_FUNCTION"
    /\ \E e \in Entries(code_functions) :
          /\ ~Ignored(e.k, config.ignore_patterns)
          /\ FindDocItem(e.k, doc_items) = None
          /\ ~NoDocstring(e.v)
          /\ config.require_docstrings


\* the four drift types raised for a code function or class
CodeDriftTypes ==
    {"UNDOCUMENTED_FUNCTION", "UNDOCUMENTED_CLASS", "PARAMETER_MISMATCH",
     "MISSING_DEPRECATION_NOTICE"}

\* every function and class name of the indexes matches an ignore pattern
AllCodeIgnored(functions, classes) ==
    \A e \in Entries(functions) \cup Entries(classes) :
        Ignored(e.k, config.ignore_patterns)

InputClasses ==
    UNION { {code_results[r].classes[i] : i \in DOMAIN code_results[r].classes} :
            r \in DOMAIN code_results }

\* the functions and methods of the input
InputFunctions ==
    UNION { {code_results[r].functions[i] : i \in DOMAIN code_results[r].functions} :
            r \in DOMAIN code_results }
    \cup UNION { {c.methods[i] : i \in DOMAIN c.methods} : c \in InputClasses }

\* the doc items of the input
InputDocItems ==
    UNION { {doc_results[r].items[i] : i \in DOMAIN doc_results[r].items} :
            r \in DOMAIN doc_results }

\* C6: in the stats, total_classes is the number of distinct code class names,
\* total_documented the number of distinct doc item names, matched the number
\* of distinct doc names the policy returned for a non-ignored code function
\* or class, and undocumented = (total_functions + total_classes) - matched.
C6_Stats ==
    Done =>
        /\ stats[1].total_classes = Cardinality({c.name : c \in InputClasses})
        /\ stats[1].total_documented = Cardinality({d.name : d \in InputDocItems})
        /\ stats[1].matched = Cardinality(PolicyMatched)
        /\ stats[1].undocumented =
              (stats[1].total_functions + stats[1].total_classes) - stats[1].matched

\* a class and two doc names, one of them matched
C6_Witness ==
    /\ Done
    /\ stats[1].total_classes = 1
    /\ stats[1].total_documented = 2
    /\ stats[1].matched = 1

\* the qualified name of a function: Class.method, or the bare name
QualifiedName(f) ==
    IF f.class_name = None THEN f.name ELSE f.class_name[1] \o <<".">> \o f.name

\* C7: stats.total_functions equals the number of distinct qualified full
\* names among all code functions and methods of the input; a method counts
\* once even when it is also keyed under its short name.
C7_TotalFunctions ==
    Done => stats[1].total_functions = Cardinality({QualifiedName(f) : f \in InputFunctions})

\* the methods of the input: the signatures that carry a class name
InputMethods == {f \in InputFunctions : f.class_name # None}

\* the methods in the order _index_functions takes them
RECURSIVE MethodsOfClasses(_, _)
MethodsOfClasses(classes, i) ==
    IF i > Len(classes) THEN <<>>
    ELSE classes[i].methods \o MethodsOfClasses(classes, i + 1)

RECURSIVE MethodsInOrder(_, _)
MethodsInOrder(results, r) ==
    IF r > Len(results) THEN <<>>
    ELSE SelectSeq(results[r].functions, LAMBDA f : f.class_name # None)
         \o MethodsOfClasses(results[r].classes, 1)
         \o MethodsInOrder(results, r + 1)

\* the last method of short name s that _index_functions takes
LastMethodNamed(s) ==
    LET ms == MethodsInOrder(code_results, 1)
        at == {i \in DOMAIN ms : ms[i].name = s}
    IN  ms[CHOOSE i \in at : \A j \in at : j <= i]

\* C9: after function-index construction every method of the input is in the
\* function index both under Class.method and under its bare short name, and
\* the short-name key holds the last method processed with that short name.
C9_MethodsUnderBothNames ==
    pc \in {"functions", "classes", "orphans", "done"} =>
        \A m \in InputMethods :
            /\ QualifiedName(m) \in DictKeys(code_functions)
            /\ m.name \in DictKeys(code_functions)
            /\ DictGet(code_functions, m.name) = LastMethodNamed(m.name)


\* the three classes of the matching-totality property, for a function entry
\* and for a class entry of the indexes
IgnoredEntry(e) == Ignored(e.k, config.ignore_patterns)

MatchedEntry(e) ==
    /\ ~IgnoredEntry(e)
    /\ FindDocItem(e.k, doc_items) # None
    /\ FindDocItem(e.k, doc_items)[1].name \in matched_docs

ReportedFunction(e) == IssueCount("UNDOCUMENTED_FUNCTION", e.k) > 0

ReportedClass(e) == IssueCount("UNDOCUMENTED_CLASS", e.k) > 0

\* the number of the three classes an entry falls in
ClassesOf(ignored, reported, matched) ==
    (IF ignored THEN 1 ELSE 0) + (IF reported THEN 1 ELSE 0) + (IF matched THEN 1 ELSE 0)

\* the entry is passed over: not ignored, no doc item found, and a docstring
\* present or require_docstrings false
PassedOver(e) ==
    /\ ~IgnoredEntry(e)
    /\ FindDocItem(e.k, doc_items) = None
    /\ (~NoDocstring(e.v) \/ ~config.require_docstrings)

\* C10 as stated (matching totality): each code function and class of the
\* indexes is in exactly one of {ignored, undocumented issue emitted, matched
\* to a doc item}; none is dropped without being ignored, matched or reported.
C10_Totality ==
    Done =>
        /\ \A e \in Entries(code_functions) :
              ClassesOf(IgnoredEntry(e), ReportedFunction(e), MatchedEntry(e)) = 1
        /\ \A e \in Entries(code_classes) :
              ClassesOf(IgnoredEntry(e), ReportedClass(e), MatchedEntry(e)) = 1

\* C10 as amended: each code function and class of the indexes is in at most
\* one of {ignored, undocumented issue emitted, matched to a doc item}, and it
\* is in none of them exactly when it is not ignored, has no doc item, and has
\* a docstring or require_docstrings is false: such an entry is passed over
\* without any issue.
C10_TotalityAmended ==
    Done =>
        /\ \A e \in Entries(code_functions) :
              ClassesOf(IgnoredEntry(e), ReportedFunction(e), MatchedEntry(e)) =
                  IF PassedOver(e) THEN 0 ELSE 1
        /\ \A e \in Entries(code_classes) :
              ClassesOf(IgnoredEntry(e), ReportedClass(e), MatchedEntry(e)) =
                  IF PassedOver(e) THEN 0 ELSE 1

\* one function is passed over while another is ignored and a third entry is
\* reported or matched
C10_Witness ==
    /\ Done
    /\ \E e \in Entries(code_functions) : PassedOver(e) /\ config.require_docstrings
    /\ \E e \in Entries(code_functions) : IgnoredEntry(e)
    /\ \E e \in Entries(code_classes) : ReportedClass(e) \/ MatchedEntry(e)

-----------------------------------------------------------------------------
(* compare on inputs that differ in their parameter lists *)

DriftFunctionCatalog ==
    { FunctionSignature(<<"f">>, 1, <<"a", "b">>, Some(<<"d">>), None, <<>>),
      FunctionSignature(<<"f">>, 2, <<"self", "a">>, Some(<<"d">>), None, <<>>),
      FunctionSignature(<<"f">>, 3, <<>>, None, None, <<>>),
      FunctionSignature(<<"m">>, 4, <<"a">>, None, Some(<<"C">>), <<>>) }

DriftClassCatalog ==
    { ClassSignature(<<"C">>, 5, None,
          << FunctionSignature(<<"m">>, 6, <<"self", "b">>, None, Some(<<"C">>), <<>>) >>,
          <<>>) }

DriftDocCatalog ==
    { DocumentedItem(<<"f">>, 1, function, None, <<>>, FALSE),
      DocumentedItem(<<"f">>, 2, function, None, <<"a">>, FALSE),
      DocumentedItem(<<"f">>, 3, function, None, <<"a", "b">>, TRUE),
      DocumentedItem(<<"f">>, 4, function, None, <<"a", "c">>, FALSE),
      DocumentedItem(<<"m">>, 5, function, None, <<"c">>, FALSE),
      DocumentedItem(<<"C">>, 6, <<"c","l","a","s","s">>, None, <<"a">>, TRUE) }

DriftConfigs ==
    { Comparator(<<>>, TRUE, TRUE),
      Comparator(<<>>, TRUE, FALSE),
      Comparator(default_ignore_patterns, TRUE, TRUE) }

InitDrift ==
    /\ pc = "start"
    /\ pos = 0
    /\ config \in DriftConfigs
    /\ \E a \in 0..MaxItems : \E b \in 0..(MaxItems - a) :
          /\ code_results \in CodeResults(DriftFunctionCatalog, DriftClassCatalog, a)
          /\ doc_results \in DocResults(DriftDocCatalog, b)
    /\ code_functions = <<>>
    /\ code_classes = <<>>
    /\ doc_items = <<>>
    /\ matched_docs = {}
    /\ issues = <<>>
    /\ stats = None
    /\ call = None

SpecDrift == InitDrift /\ [][Next]_vars

\* the number of PARAMETER_MISMATCH issues of one severity raised for function f
ParameterIssueCount(f, severity) ==
    Cardinality({i \in DOMAIN issues :
                    /\ issues[i].drift_type = "PARAMETER_MISMATCH"
                    /\ issues[i].severity = severity
                    /\ issues[i].item_name = QualifiedName(f)
                    /\ issues[i].code_line = Some(f.line_number)})

\* P_code: the function's parameter names without an implicit self
CodeParams(f) == {f.parameters[i] : i \in DOMAIN f.parameters} \ {"self"}

\* P_doc: the doc item's declared parameter names
DocParams(d) == {d.parameters[i] : i \in DOMAIN d.parameters}

\* the function-index entries that compare matches to a doc item
MatchedFunctionEntries ==
    {e \in Entries(code_functions) :
        ~Ignored(e.k, config.ignore_patterns) /\ FindDocItem(e.k, doc_items) # None}

RaisingEntries(f, severity) ==
    {e \in MatchedFunctionEntries :
        LET d == FindDocItem(e.k, doc_items)[1]
        IN  /\ e.v = f
            /\ config.check_parameters
            /\ DocParams(d) # {}
            /\ IF severity = "CRITICAL"
               THEN DocParams(d) \ CodeParams(f) # {}
               ELSE CodeParams(f) \ DocParams(d) # {}}

-----------------------------------------------------------------------------
(* compare on inputs that carry decorators, and classes an ignore pattern    *)
(* excludes                                                                 *)

DecoratedFunctionCatalog ==
    { FunctionSignature(<<"f">>, 1, <<>>, None, None, << <<"A","p","i">> >>),
      FunctionSignature(<<"_","g">>, 2, <<>>, None, None,
                        << <<"c","a","p">>, <<"p","u","b","l","i","c">> >>),
      FunctionSignature(<<"f">>, 3, <<>>, None, None,
                        << <<"D","e","p","r","e","c","a","t","e","d">> >>),
      FunctionSignature(<<"m">>, 4, <<>>, None, Some(<<"C">>), <<>>),
      FunctionSignature(<<"_","g">>, 5, <<>>, None, None, <<>>) }

DecoratedClassCatalog ==
    { ClassSignature(<<"C">>, 6, None, <<>>, <<>>),
      ClassSignature(<<"C">>, 7, Some(<<"d">>), <<>>,
                     << <<"D","e","p","r","e","c","a","t","e","d">> >>),
      ClassSignature(<<"_","K">>, 8, None, <<>>, <<>>) }

DecoratedDocCatalog ==
    { DocumentedItem(<<"f">>, 1, function, None, <<>>, TRUE),
      DocumentedItem(<<"m">>, 2, function, None, <<>>, TRUE),
      DocumentedItem(<<"C">>, 3, <<"c","l","a","s","s">>, None, <<>>, TRUE),
      DocumentedItem(<<"C">>, 4, <<"c","l","a","s","s">>, None, <<>>, FALSE) }

DecoratedConfigs ==
    { Comparator(<<>>, TRUE, TRUE),
      Comparator(default_ignore_patterns, TRUE, TRUE),
      Comparator(<<>>, FALSE, TRUE) }

InitDecorated ==
    /\ pc = "start"
    /\ pos = 0
    /\ config \in DecoratedConfigs
    /\ \E a \in 0..MaxItems : \E b \in 0..(MaxItems - a) :
          /\ code_results \in CodeResults(DecoratedFunctionCatalog, DecoratedClassCatalog, a)
          /\ doc_results \in DocResults(DecoratedDocCatalog, b)
    /\ code_functions = <<>>
    /\ code_classes = <<>>
    /\ doc_items = <<>>
    /\ matched_docs = {}
    /\ issues = <<>>
    /\ stats = None
    /\ call = None

SpecDecorated == InitDecorated /\ [][Next]_vars

\* some decorator text contains the marker, whatever its case
DecoratorMarked(decorators, marker) ==
    \E i \in DOMAIN decorators : Contains(Lower(decorators[i]), marker)

\* the severity the escalation rule gives: the decorator marker first, then
\* the leading underscore
EscalatedSeverity(f) ==
    IF \/ DecoratorMarked(f.decorators, <<"a","p","i">>)
       \/ DecoratorMarked(f.decorators, <<"p","u","b","l","i","c">>)
    THEN "CRITICAL"
    ELSE IF f.name # <<>> /\ f.name[1] = "_" THEN "INFO" ELSE "WARNING"

\* C11: the severity of every UNDOCUMENTED_FUNCTION issue is CRITICAL if any
\* decorator text of the function contains 'api' or 'public'
\* (case-insensitive), otherwise INFO if the function's name starts with an
\* underscore, otherwise WARNING.
C11_UndocumentedSeverity ==
    Done =>
        \A i \in DOMAIN issues :
            issues[i].drift_type = "UNDOCUMENTED_FUNCTION" =>
                \E e \in Entries(code_functions) :
                    /\ e.k = issues[i].item_name
                    /\ issues[i].severity = EscalatedSeverity(e.v)

\* C12: compare emits an UNDOCUMENTED_CLASS issue for a code class c if and
\* only if c's name matches no ignore pattern, the name-matching policy finds
\* no doc item for c's name, c has no docstring (an empty one counts as none)
\* and require_docstrings is true; exactly one per such class, always at
\* WARNING.  A class matched to a doc item never yields UNDOCUMENTED_CLASS.
C12_UndocumentedClass ==
    Done =>
        /\ \A e \in Entries(code_classes) :
              IssueCount("UNDOCUMENTED_CLASS", e.k) =
                  IF /\ ~Ignored(e.k, config.ignore_patterns)
                     /\ FindDocItem(e.k, doc_items) = None
                     /\ NoDocstring(e.v)
                     /\ config.require_docstrings
                  THEN 1 ELSE 0
        /\ \A e \in Entries(code_classes) :
              (\E d \in Entries(doc_items) : d.k = e.k) =>
                  IssueCount("UNDOCUMENTED_CLASS", e.k) = 0
        /\ \A i \in DOMAIN issues :
              issues[i].drift_type = "UNDOCUMENTED_CLASS" =>
                  /\ issues[i].severity = "WARNING"
                  /\ issues[i].item_name \in DictKeys(code_classes)

\* one class is reported while an ignored class without a docstring and
\* without a doc item is not
C12_Witness ==
    /\ Done
    /\ \E i \in DOMAIN issues : issues[i].drift_type = "UNDOCUMENTED_CLASS"
    /\ \E e \in Entries(code_classes) :
          /\ Ignored(e.k, config.ignore_patterns)
          /\ FindDocItem(e.k, doc_items) = None
          /\ NoDocstring(e.v)
          /\ config.require_docstrings

\* the MISSING_DEPRECATION_NOTICE issues at INFO raised for one code entity,
\* told by its reported name and the line of its definition
DeprecationNoticeCount(item_name, line_number) ==
    Cardinality({i \in DOMAIN issues :
                    /\ issues[i].drift_type = "MISSING_DEPRECATION_NOTICE"
                    /\ issues[i].severity = "INFO"
                    /\ issues[i].item_name = item_name
                    /\ issues[i].code_line = Some(line_number)})

\* the doc item is marked deprecated and the code entity carries no
\* deprecation-style decorator
DeprecationMissing(decorators, d) ==
    d.deprecated /\ ~DecoratorMarked(decorators, <<"d","e","p","r","e","c","a","t">>)

\* the class-index entries that compare matches to a doc item
MatchedClassEntries ==
    {e \in Entries(code_classes) :
        ~Ignored(e.k, config.ignore_patterns) /\ FindDocItem(e.k, doc_items) # None}

\* C13: for every matched code function or class, exactly one
\* MISSING_DEPRECATION_NOTICE issue at INFO is emitted if and only if the
\* matched doc item is marked deprecated and no decorator of the code entity
\* contains 'deprecat' (case-insensitive), and none otherwise; every such
\* issue is at INFO; no PARAMETER_MISMATCH issue is ever emitted for a class.
C13_DeprecationNotice ==
    Done =>
        /\ \A e \in MatchedFunctionEntries :
              DeprecationNoticeCount(QualifiedName(e.v), e.v.line_number) =
                  IF DeprecationMissing(e.v.decorators, FindDocItem(e.k, doc_items)[1])
                  THEN 1 ELSE 0
        /\ \A e \in MatchedClassEntries :
              DeprecationNoticeCount(e.v.name, e.v.line_number) =
                  IF DeprecationMissing(e.v.decorators, FindDocItem(e.k, doc_items)[1])
                  THEN 1 ELSE 0
        /\ \A i \in DOMAIN issues :
              /\ issues[i].drift_type = "MISSING_DEPRECATION_NOTICE" =>
                    issues[i].severity = "INFO"
              /\ issues[i].drift_type = "PARAMETER_MISMATCH" =>
                    \A e \in Entries(code_classes) :
                        issues[i].code_line # Some(e.v.line_number)

\* the issue is derived from a code class: it names a class of the class
\* index at the line of that class
ClassDerived(issue) ==
    /\ issue.drift_type \in {"UNDOCUMENTED_CLASS", "MISSING_DEPRECATION_NOTICE"}
    /\ \E e \in Entries(code_classes) :
          /\ issue.item_name = e.v.name
          /\ issue.code_line = Some(e.v.line_number)

\* the place of an issue in the discovery order: 1 for an issue derived from
\* a code function, 2 from a code class, 3 for an orphan doc item
DiscoveryRank(issue) ==
    IF issue.drift_type = "MISSING_FROM_CODE" THEN 3
    ELSE IF ClassDerived(issue) THEN 2
    ELSE 1

\* C14: the issue list is in discovery order: every issue derived from a code
\* function (UNDOCUMENTED_FUNCTION, PARAMETER_MISMATCH, function
\* MISSING_DEPRECATION_NOTICE) precedes every issue derived from a code class
\* (UNDOCUMENTED_CLASS, class MISSING_DEPRECATION_NOTICE), which precedes
\* every MISSING_FROM_CODE issue for an orphan doc item.
C14_DiscoveryOrder ==
    \A i, j \in DOMAIN issues :
        i < j => DiscoveryRank(issues[i]) <= DiscoveryRank(issues[j])

\* the result holds a function issue, then a deprecation notice for a class,
\* then an orphan doc item
C14_Witness ==
    /\ Done
    /\ \E i, j, k \in DOMAIN issues :
          /\ i < j /\ j < k
          /\ issues[i].drift_type = "UNDOCUMENTED_FUNCTION"
          /\ issues[j].drift_type = "MISSING_DEPRECATION_NOTICE"
          /\ ClassDerived(issues[j])
          /\ issues[k].drift_type = "MISSING_FROM_CODE"

-----------------------------------------------------------------------------
(* compare called on an input and then on the same files in another order:  *)
(* the directory walks hand the files over in the order of the file system  *)

\* the number of functions, classes and doc items of the input that is
\* compared in two orders
MaxOrderItems == 3

OrderFunctionCatalog ==
    { FunctionSignature(<<"f">>, 1, <<>>, None, None, <<>>),
      FunctionSignature(<<"f">>, 2, <<>>, Some(<<"d">>), None, <<>>),
      FunctionSignature(<<"m">>, 3, <<>>, None, Some(<<"C">>), <<>>),
      FunctionSignature(<<"m">>, 4, <<>>, Some(<<"d">>), None, <<>>) }

OrderClassCatalog ==
    { ClassSignature(<<"C">>, 5, None, <<>>, <<>>),
      ClassSignature(<<"C">>, 6, Some(<<"d">>), <<>>, <<>>) }

OrderDocCatalog ==
    { DocumentedItem(<<"f">>, 1, function, None, <<>>, FALSE),
      DocumentedItem(<<"f">>, 2, function, None, <<>>, TRUE),
      DocumentedItem(<<"c",".","m">>, 3, function, None, <<>>, FALSE),
      DocumentedItem(<<"C",".","M">>, 4, function, None, <<>>, FALSE) }

\* the lists of DocParseResults, each with at least one item, that hold w items
RECURSIVE DocResultLists(_, _)
DocResultLists(items, w) ==
    IF w = 0 THEN {<<>>}
    ELSE UNION { { << [items |-> is] >> \o rest : is \in ListsOf(items, x),
                                                  rest \in DocResultLists(items, w - x) } :
                 x \in 1..w }

\* the orders a list can be handed over in
Orders(s) ==
    { [i \in DOMAIN s |-> s[f[i]]] :
        f \in {g \in [DOMAIN s -> DOMAIN s] : \A i, j \in DOMAIN s : g[i] = g[j] => i = j} }

\* the code results with the entries of every file in any order, files in the given order
RECURSIVE PermutedInsideCode(_)
PermutedInsideCode(results) ==
    IF results = <<>> THEN {<<>>}
    ELSE { << [functions |-> fs, classes |-> cs] >> \o rest :
              fs \in Orders(Head(results).functions),
              cs \in Orders(Head(results).classes),
              rest \in PermutedInsideCode(Tail(results)) }

\* the doc results with the items of every file in any order, files in the given order
RECURSIVE PermutedInsideDocs(_)
PermutedInsideDocs(results) ==
    IF results = <<>> THEN {<<>>}
    ELSE { << [items |-> is] >> \o rest :
              is \in Orders(Head(results).items),
              rest \in PermutedInsideDocs(Tail(results)) }

\* the state in which compare is called first; call holds the other order
InitOrder ==
    /\ pc = "start"
    /\ pos = 0
    /\ config = Comparator(<<>>, TRUE, TRUE)
    /\ \E a \in 0..MaxOrderItems : \E b \in 0..(MaxOrderItems - a) :
          /\ code_results \in CodeResults(OrderFunctionCatalog, OrderClassCatalog, a)
          /\ doc_results \in DocResultLists(OrderDocCatalog, b)
    /\ \E p \in Orders(code_results) : \E q \in Orders(doc_results) :
          \E cr \in PermutedInsideCode(p) : \E dr \in PermutedInsideDocs(q) :
              call = [fn |-> "compare", code_results |-> cr, doc_results |-> dr,
                      ret |-> None]
    /\ code_functions = <<>>
    /\ code_classes = <<>>
    /\ doc_items = <<>>
    /\ matched_docs = {}
    /\ issues = <<>>
    /\ stats = None

\* the first call has returned: keep its ComparisonResult and call compare
\* on the files in the other order
CompareOtherOrder ==
    /\ pc = "done"
    /\ call.ret = None
    /\ call' = [fn |-> "compare", code_results |-> code_results,
                doc_results |-> doc_results,
                ret |-> Some([issues |-> issues, stats |-> stats[1]])]
    /\ code_results' = call.code_results
    /\ doc_results' = call.doc_results
    /\ pc' = "start"
    /\ pos' = 0
    /\ code_functions' = <<>>
    /\ code_classes' = <<>>
    /\ doc_items' = <<>>
    /\ matched_docs' = {}
    /\ issues' = <<>>
    /\ stats' = None
    /\ UNCHANGED config

NextOrder == BuildIndexes \/ CheckFunction \/ CheckClass \/ CheckDocItem \/ CompareOtherOrder

SpecOrder == InitOrder /\ [][NextOrder]_vars

\* both calls have returned
BothDone == pc = "done" /\ call # None /\ call.ret # None

\* the number of times x occurs in the list s
Occurrences(s, x) == Cardinality({i \in DOMAIN s : s[i] = x})

\* the two lists hold the same multiset
SameMultiset(s, t) ==
    \A x \in {s[i] : i \in DOMAIN s} \cup {t[i] : i \in DOMAIN t} :
        Occurrences(s, x) = Occurrences(t, x)

\* C15 as stated (order independence of the merge): for any permutation of
\* the code_results list and of the doc_results list, and of the entries
\* inside them, compare returns the same stats and the same multiset of
\* issues.
C15_OrderIndependence ==
    BothDone =>
        /\ stats[1] = call.ret[1].stats
        /\ SameMultiset(issues, call.ret[1].issues)

\* the names every function and method of the input is keyed under, in the
\* order of the input
RECURSIVE FunctionKeys(_)
FunctionKeys(results) ==
    IF results = <<>> THEN <<>>
    ELSE LET fs == Head(results).functions
             ms == MethodsOfClasses(Head(results).classes, 1)
         IN  [i \in DOMAIN fs |-> QualifiedName(fs[i])]
             \o [i \in DOMAIN ms |-> QualifiedName(ms[i])]
             \o SelectSeq([i \in DOMAIN fs |->
                              IF fs[i].class_name = None THEN <<>> ELSE fs[i].name],
                          LAMBDA n : n # <<>>)
             \o FunctionKeys(Tail(results))

RECURSIVE ClassNames(_)
ClassNames(results) ==
    IF results = <<>> THEN <<>>
    ELSE [i \in DOMAIN Head(results).classes |-> Head(results).classes[i].name]
         \o ClassNames(Tail(results))

RECURSIVE DocNames(_)
DocNames(results) ==
    IF results = <<>> THEN <<>>
    ELSE [i \in DOMAIN Head(results).items |-> Lower(Head(results).items[i].name)]
         \o DocNames(Tail(results))

\* no entry of the list occurs twice
Distinct(s) == \A i, j \in DOMAIN s : s[i] = s[j] => i = j

\* no two functions or methods of the input share an index key, no two
\* classes share a name, and no two doc items have names that are equal
\* when case is ignored
NoNameCollision ==
    /\ Distinct(FunctionKeys(code_results))
    /\ Distinct(ClassNames(code_results))
    /\ Distinct(DocNames(doc_results))

\* C15 as amended: when no two functions or methods of the input share a
\* function-index key, no two classes share a name and no two doc items have
\* names that are equal when case is ignored, compare returns the same stats
\* and the same multiset of issues for any permutation of the code_results
\* list and of the doc_results list, and of the entries inside them.
C15_OrderIndependenceAmended ==
    (BothDone /\ NoNameCollision) =>
        /\ stats[1] = call.ret[1].stats
        /\ SameMultiset(issues, call.ret[1].issues)

\* two files without a colliding name are compared in both orders and the
\* two issue lists hold the same issues in different orders
C15_Witness ==
    /\ BothDone
    /\ NoNameCollision
    /\ Len(code_results) = 2
    /\ code_results # call.code_results
    /\ Len(issues) >= 2
    /\ issues # call.ret[1].issues

-----------------------------------------------------------------------------
(* The extractors: CodeParser, PythonParser and JavaScriptParser of         *)
(* src/src/parser.py, DocParser of src/src/doc_parser.py.                    *)
(*                                                                         *)
(* A file of the directory is a record: its path (the text of               *)
(* str(filepath)), is_file, whether open() and read() succeed, and its       *)
(* content seen two ways: tree is the module body ast.parse returns (None    *)
(* when the text is not valid Python), lines are the lines of the text as    *)
(* the tokens the regular patterns of JavaScriptParser look at.  An AST      *)
(* node is [type, name, lineno, body]; a line is [indent, tokens], a blank   *)
(* line has no token, and "()" stands for a parenthesised parameter list.    *)
(* Of a FunctionSignature the extractors' model keeps name, filepath,        *)
(* line_number, is_method and class_name; of a ParseResult filepath,         *)
(* language, functions, classes and errors; of a DocParseResult filepath,    *)
(* format and errors.                                                        *)

\* PurePath.name: the text after the last '/'
PathName(path) ==
    LET slashes == {i \in DOMAIN path : path[i] = "/"}
    IN  IF slashes = {} THEN path
        ELSE SubSeq(path, (CHOOSE i \in slashes : \A j \in slashes : j <= i) + 1, Len(path))

\* PurePath.suffix: the name from its last '.', unless that '.' starts or ends the name
PathSuffix(path) ==
    LET name == PathName(path)
        dots == {i \in DOMAIN name : name[i] = "."}
        last == CHOOSE i \in dots : \A j \in dots : j <= i
    IN  IF dots = {} \/ last = 1 \/ last = Len(name) THEN <<>>
        ELSE SubSeq(name, last, Len(name))

\* CodeParser.LANGUAGE_MAP.get(suffix)
LANGUAGE_MAP(suffix) ==
    CASE suffix = <<".","p","y">> -> Some("python")
      [] suffix = <<".","j","s">> -> Some("javascript")
      [] suffix = <<".","j","s","x">> -> Some("javascript")
      [] suffix = <<".","t","s">> -> Some("typescript")
      [] suffix = <<".","t","s","x">> -> Some("typescript")
      [] suffix = <<".","m","j","s">> -> Some("javascript")
      [] OTHER -> None

\* DocParser.FORMAT_MAP.get(suffix, DocFormat.UNKNOWN)
FORMAT_MAP(suffix) ==
    CASE suffix = <<".","m","d">> -> "MARKDOWN"
      [] suffix = <<".","m","a","r","k","d","o","w","n">> -> "MARKDOWN"
      [] suffix = <<".","r","s","t">> -> "RST"
      [] suffix = <<".","t","x","t">> -> "UNKNOWN"
      [] OTHER -> "UNKNOWN"

\* ast.walk from the module: breadth first, a node before its children
RECURSIVE Walk(_)
Walk(todo) ==
    IF todo = <<>> THEN <<>>
    ELSE << Head(todo) >> \o Walk(Tail(todo) \o Head(todo).body)

FunctionDefs == {"FunctionDef", "AsyncFunctionDef"}

\* PythonParser._is_top_level: the node is one of the module's own children
IsTopLevel(tree, target) == \E i \in DOMAIN tree : tree[i] = target

Parameter(name, type_hint, default) ==
    [name |-> name, type_hint |-> type_hint, default |-> default]

\* ast.arguments: the positional-only arguments, the other positional
\* arguments, and the defaults of the last of all the positional ones
arguments(posonlyargs, args, defaults) ==
    [posonlyargs |-> posonlyargs, args |-> args, defaults |-> defaults]

\* ast.arg: the name and the text of the annotation
arg(name, annotation) == [arg |-> name, annotation |-> annotation]

\* list indexing params[k]: the position it names, counted from 1; k < 0
\* counts from the end; 0 stands for IndexError
ListIndex(n, k) ==
    IF 0 <= k /\ k < n THEN k + 1
    ELSE IF -n <= k /\ k < 0 THEN n + k + 1
    ELSE 0

\* lines 142-146: params[offset + i].default = ast.unparse(default) for
\* each default in turn; None when an index is out of range
RECURSIVE AssignDefaults(_, _, _, _)
AssignDefaults(params, defaults, offset, i) ==
    IF i >= Len(defaults) THEN Some(params)
    ELSE LET at == ListIndex(Len(params), offset + i)
         IN  IF at = 0 THEN None
             ELSE AssignDefaults([params EXCEPT ![at].default = Some(defaults[i + 1])],
                                 defaults, offset, i + 1)

\* lines 134-146: the parameters of a definition, None for IndexError
Parameters(node) ==
    LET params == [i \in DOMAIN node.args.args |->
                      Parameter(node.args.args[i].arg, node.args.args[i].annotation, None)]
        defaults == node.args.defaults
    IN  IF defaults # <<>>
        THEN AssignDefaults(params, defaults, Len(params) - Len(defaults), 0)
        ELSE Some(params)

\* PythonParser._parse_function, for a definition whose parameters are built
ParseFunction(node, filepath, class_name) ==
    [name |-> node.name, filepath |-> filepath, line_number |-> node.lineno,
     parameters |-> Parameters(node)[1],
     is_method |-> class_name # None, class_name |-> class_name]

\* PythonParser._parse_class: the methods are the function definitions of the class body
ParseClass(node, filepath) ==
    LET defs == SelectSeq(node.body, LAMBDA item : item.type \in FunctionDefs)
    IN  [name |-> node.name, filepath |-> filepath, line_number |-> node.lineno,
         methods |-> [i \in DOMAIN defs |-> ParseFunction(defs[i], filepath, Some(node.name))]]

ParseResult(filepath, language, functions, classes, errors) ==
    [filepath |-> filepath, language |-> language, functions |-> functions,
     classes |-> classes, errors |-> errors]

\* the definitions parse_file hands to _parse_function: the module's own
\* functions and the functions in the body of any class
ParsedDefs(tree) ==
    LET nodes == Walk(tree)
    IN  { nodes[i] : i \in { h \in DOMAIN nodes :
                                nodes[h].type \in FunctionDefs /\ IsTopLevel(tree, nodes[h]) } }
        \cup UNION { { nodes[c].body[d] :
                         d \in { h \in DOMAIN nodes[c].body :
                                   nodes[c].body[h].type \in FunctionDefs } } :
                     c \in { h \in DOMAIN nodes : nodes[h].type = "ClassDef" } }

\* the IndexError of _parse_function leaves parse_file: it is raised after
\* the try block (lines 113-121)
PythonParseFileRaises(file) ==
    /\ file.readable
    /\ file.tree # None
    /\ \E node \in ParsedDefs(file.tree[1]) : Parameters(node) = None

\* PythonParser.parse_file
PythonParseFile(file) ==
    IF ~file.readable
    THEN ParseResult(file.path, "python", <<>>, <<>>, << "Parse error" >>)
    ELSE IF file.tree = None
    THEN ParseResult(file.path, "python", <<>>, <<>>, << "Syntax error" >>)
    ELSE LET nodes == Walk(file.tree[1])
             funcs == SelectSeq(nodes, LAMBDA n :
                         n.type \in FunctionDefs /\ IsTopLevel(file.tree[1], n))
             clss == SelectSeq(nodes, LAMBDA n : n.type = "ClassDef")
         IN  ParseResult(file.path, "python",
                 [i \in DOMAIN funcs |-> ParseFunction(funcs[i], file.path, None)],
                 [i \in DOMAIN clss |-> ParseClass(clss[i], file.path)],
                 <<>>)

-----------------------------------------------------------------------------
(* JavaScriptParser.parse_file: the regular patterns on the lines' tokens *)

\* the tokens \w+ does not match
Punctuation == {"()", "{", "}", "=", "=>"}

IsWord(t) == t \notin Punctuation

\* a line of white space only
IsBlank(line) == line.tokens = <<>>

\* FUNCTION_PATTERNS[0], anchored at column 0:
\* (export)? (async)? function NAME (...)
FunctionDeclaration(line) ==
    LET t == line.tokens
        a == IF Len(t) >= 1 /\ t[1] = "export" THEN 2 ELSE 1
        b == IF Len(t) >= a /\ t[a] = "async" THEN a + 1 ELSE a
    IN  IF /\ ~line.indent /\ Len(t) >= b + 2
           /\ t[b] = "function" /\ IsWord(t[b + 1]) /\ t[b + 2] = "()"
        THEN Some(t[b + 1]) ELSE None

\* FUNCTION_PATTERNS[1], anchored at column 0:
\* (export)? (const|let|var) NAME = (async)? (...) =>
ArrowFunction(line) ==
    LET t == line.tokens
        a == IF Len(t) >= 1 /\ t[1] = "export" THEN 2 ELSE 1
        b == IF Len(t) >= a + 3 /\ t[a + 3] = "async" THEN a + 4 ELSE a + 3
    IN  IF /\ ~line.indent /\ Len(t) >= b + 1
           /\ t[a] \in {"const", "let", "var"} /\ IsWord(t[a + 1]) /\ t[a + 2] = "="
           /\ t[b] = "()" /\ t[b + 1] = "=>"
        THEN Some(t[a + 1]) ELSE None

\* the tokens of FUNCTION_PATTERNS[2]: (async)? NAME (...) {, where the
\* optional async is given up when no name follows it
MethodShorthandName(t) ==
    IF Len(t) >= 4 /\ t[1] = "async" /\ IsWord(t[2]) /\ t[3] = "()" /\ t[4] = "{"
    THEN Some(t[2])
    ELSE IF Len(t) >= 3 /\ IsWord(t[1]) /\ t[2] = "()" /\ t[3] = "{"
         THEN Some(t[1])
         ELSE None

\* where ^\s+ starts when the name is on line i: \s+ also runs over the
\* blank lines right before line i, so the match starts at the first of them
MatchStart(lines, i) ==
    CHOOSE j \in 1..i :
        /\ \A k \in j..(i - 1) : IsBlank(lines[k])
        /\ \A h \in 1..(j - 1) : \E k \in h..(i - 1) : ~IsBlank(lines[k])

\* FUNCTION_PATTERNS[2] with the name on line i: white space from a line
\* start, then the tokens
MethodShorthand(lines, i) ==
    IF (lines[i].indent \/ MatchStart(lines, i) < i) /\ ~IsBlank(lines[i])
    THEN MethodShorthandName(lines[i].tokens)
    ELSE None

\* CLASS_PATTERN, anchored at column 0: (export)? class NAME
ClassDeclaration(line) ==
    LET t == line.tokens
        a == IF Len(t) >= 1 /\ t[1] = "export" THEN 2 ELSE 1
    IN  IF ~line.indent /\ Len(t) >= a + 1 /\ t[a] = "class" /\ IsWord(t[a + 1])
        THEN Some(t[a + 1]) ELSE None

\* the FunctionSignature of a match: no class_name, is_method False
JSFunction(name, filepath, line_num) ==
    [name |-> name, filepath |-> filepath, line_number |-> line_num,
     is_method |-> FALSE, class_name |-> None]

\* the matches of one pattern in the order of the text
RECURSIVE PatternMatchesFrom(_, _, _, _)
PatternMatchesFrom(pattern, lines, filepath, i) ==
    IF i > Len(lines) THEN <<>>
    ELSE LET name == CASE pattern = 1 -> FunctionDeclaration(lines[i])
                       [] pattern = 2 -> ArrowFunction(lines[i])
                       [] pattern = 3 -> MethodShorthand(lines, i)
             line_num == IF pattern = 3 THEN MatchStart(lines, i) ELSE i
         IN  (IF name # None THEN << JSFunction(name[1], filepath, line_num) >> ELSE <<>>)
             \o PatternMatchesFrom(pattern, lines, filepath, i + 1)

\* result.functions.append(func) unless a function of that name and line is there
RECURSIVE AppendNew(_, _)
AppendNew(functions, found) ==
    IF found = <<>> THEN functions
    ELSE LET func == Head(found)
             seen == \E i \in DOMAIN functions :
                        /\ functions[i].name = func.name
                        /\ functions[i].line_number = func.line_number
         IN  AppendNew(IF seen THEN functions ELSE Append(functions, func), Tail(found))

RECURSIVE ClassMatchesFrom(_, _, _)
ClassMatchesFrom(lines, filepath, i) ==
    IF i > Len(lines) THEN <<>>
    ELSE LET name == ClassDeclaration(lines[i])
         IN  (IF name # None
              THEN << [name |-> name[1], filepath |-> filepath, line_number |-> i,
                       methods |-> <<>>] >>
              ELSE <<>>)
             \o ClassMatchesFrom(lines, filepath, i + 1)

\* JavaScriptParser.parse_file
JavaScriptParseFile(file) ==
    IF ~file.readable
    THEN ParseResult(file.path, "javascript", <<>>, <<>>, << "Read error" >>)
    ELSE ParseResult(file.path, "javascript",
            AppendNew(AppendNew(AppendNew(<<>>,
                PatternMatchesFrom(1, file.lines, file.path, 1)),
                PatternMatchesFrom(2, file.lines, file.path, 1)),
                PatternMatchesFrom(3, file.lines, file.path, 1)),
            ClassMatchesFrom(file.lines, file.path, 1),
            <<>>)

\* CodeParser.parse_file passes the exception of the Python parser on
CodeParseFileRaises(file) ==
    /\ LANGUAGE_MAP(Lower(PathSuffix(file.path))) = Some("python")
    /\ PythonParseFileRaises(file)

\* CodeParser.parse_file: None for a suffix without a language
CodeParseFile(file) ==
    LET language == LANGUAGE_MAP(Lower(PathSuffix(file.path)))
    IN  IF language = Some("python") THEN Some(PythonParseFile(file))
        ELSE IF language \in {Some("javascript"), Some("typescript")}
             THEN Some(JavaScriptParseFile(file))
             ELSE None

\* MarkdownParser.parse_file and RSTParser.parse_file, as far as the read
DocFormatParseFile(file, format) ==
    [filepath |-> file.path, format |-> format,
     errors |-> IF file.readable THEN <<>> ELSE << "Read error" >>]

\* DocParser.parse_file: None for a suffix without a format parser
DocParseFile(file) ==
    LET format == FORMAT_MAP(Lower(PathSuffix(file.path)))
    IN  IF format = "MARKDOWN" THEN Some(DocFormatParseFile(file, "MARKDOWN"))
        ELSE IF format = "RST" THEN Some(DocFormatParseFile(file, "RST"))
             ELSE None

-----------------------------------------------------------------------------
(* CodeParser.parse_directory and DocParser.parse_directory, one step per   *)
(* entry of directory.rglob('*')                                            *)

\* the exclude_patterns of CodeParser.parse_directory when the caller gives none
code_default_exclude ==
    << <<"n","o","d","e","_","m","o","d","u","l","e","s">>,
       <<"_","_","p","y","c","a","c","h","e","_","_">>,
       <<".","g","i","t">>, <<"v","e","n","v">>, <<".","v","e","n","v">> >>

\* the exclude_patterns of DocParser.parse_directory when the caller gives none
doc_default_exclude ==
    << <<"n","o","d","e","_","m","o","d","u","l","e","s">>,
       <<"_","_","p","y","c","a","c","h","e","_","_">>,
       <<".","g","i","t">>, <<"v","e","n","v">> >>

\* exclude_patterns or [...]: None and the empty list both give the default
ExcludePatterns(exclude_patterns, default) ==
    IF exclude_patterns # None /\ exclude_patterns[1] # <<>>
    THEN exclude_patterns[1]
    ELSE default

\* any(pattern in str(filepath) for pattern in exclude_patterns)
Excluded(path, patterns) == \E i \in DOMAIN patterns : Contains(path, patterns[i])

\* lines 326-333 of parser.py: one entry of the walk, or the return after the
\* last; an exception of parse_file ends the walk without a list
CodeParseDirectory ==
    /\ pc = "code_parse_directory"
    /\ IF pos > Len(call.listing)
       THEN /\ pc' = "walked"
            /\ UNCHANGED <<pos, code_results>>
       ELSE LET file == call.listing[pos]
                patterns == ExcludePatterns(call.exclude_patterns, code_default_exclude)
                result == CodeParseFile(file)
            IN  IF file.is_file /\ ~Excluded(file.path, patterns) /\ CodeParseFileRaises(file)
                THEN /\ pc' = "raised"
                     /\ UNCHANGED <<pos, code_results>>
                ELSE /\ code_results' =
                          IF file.is_file /\ ~Excluded(file.path, patterns) /\ result # None
                          THEN Append(code_results, result[1])
                          ELSE code_results
                     /\ pos' = pos + 1
                     /\ pc' = pc
    /\ UNCHANGED <<config, doc_results, code_functions, code_classes, doc_items,
                   matched_docs, issues, stats, call>>

\* lines 347-354 of doc_parser.py: one entry of the walk, or the return after the last
DocParseDirectory ==
    /\ pc = "doc_parse_directory"
    /\ IF pos > Len(call.listing)
       THEN /\ pc' = "walked"
            /\ UNCHANGED <<pos, doc_results>>
       ELSE LET file == call.listing[pos]
                patterns == ExcludePatterns(call.exclude_patterns, doc_default_exclude)
                result == DocParseFile(file)
            IN  /\ doc_results' =
                      IF file.is_file /\ ~Excluded(file.path, patterns) /\ result # None
                      THEN Append(doc_results, result[1])
                      ELSE doc_results
                /\ pos' = pos + 1
                /\ pc' = pc
    /\ UNCHANGED <<config, code_results, code_functions, code_classes, doc_items,
                   matched_docs, issues, stats, call>>

\* the number of entries of the directory
MaxFiles == 3

\* a node without arguments of its own, and a function definition with them
Node(type, name, lineno, body) ==
    [type |-> type, name |-> name, lineno |-> lineno, body |-> body,
     args |-> arguments(<<>>, <<>>, <<>>)]

DefNode(type, name, lineno, body, args) ==
    [type |-> type, name |-> name, lineno |-> lineno, body |-> body, args |-> args]

Line(indent, tokens) == [indent |-> indent, tokens |-> tokens]

File(path, is_file, readable, tree, lines) ==
    [path |-> path, is_file |-> is_file, readable |-> readable, tree |-> tree,
     lines |-> lines]

\* def f with an inner def g; class C with methods m and async n and an inner
\* class D with method k; an if statement that holds def h
ModuleTree ==
    << Node("FunctionDef", "f", 1, << Node("FunctionDef", "g", 2, <<>>) >>),
       Node("ClassDef", "C", 3,
            << Node("FunctionDef", "m", 4, <<>>),
               Node("AsyncFunctionDef", "n", 5, <<>>),
               Node("ClassDef", "D", 6, << Node("FunctionDef", "k", 7, <<>>) >>) >>),
       Node("If", "", 8, << Node("FunctionDef", "h", 9, <<>>) >>) >>

\* an exported function f, a class C with methods m and async n (after a
\* blank line), an arrow function g
ScriptLines ==
    << Line(FALSE, <<"export", "function", "f", "()", "{">>),
       Line(FALSE, <<"}">>),
       Line(FALSE, <<>>),
       Line(FALSE, <<"class", "C", "{">>),
       Line(TRUE, <<"m", "()", "{">>),
       Line(TRUE, <<"}">>),
       Line(FALSE, <<>>),
       Line(TRUE, <<"async", "n", "()", "{">>),
       Line(FALSE, <<"}">>),
       Line(FALSE, <<"const", "g", "=", "()", "=>">>) >>

FileCatalog ==
    { File(<<"a",".","p","y">>, TRUE, TRUE, Some(ModuleTree), <<>>),
      File(<<"b",".","p","y">>, TRUE, TRUE, None, <<>>),
      File(<<"c",".","p","y">>, TRUE, FALSE, None, <<>>),
      File(<<"a",".","j","s">>, TRUE, TRUE, None, ScriptLines),
      File(<<"b",".","t","s">>, TRUE, FALSE, None, <<>>),
      File(<<"a",".","m","d">>, TRUE, TRUE, None, <<>>),
      File(<<"b",".","r","s","t">>, TRUE, FALSE, None, <<>>),
      File(<<"c",".","M","D">>, TRUE, TRUE, None, <<>>),
      File(<<"a",".","t","x","t">>, TRUE, TRUE, None, <<>>),
      File(<<"v","e","n","v","/","a",".","p","y">>, TRUE, TRUE,
           Some(<< Node("FunctionDef", "f", 1, <<>>) >>), <<>>),
      File(<<"v","e","n","v","/","a",".","m","d">>, TRUE, TRUE, None, <<>>),
      File(<<"d",".","p","y">>, FALSE, FALSE, None, <<>>),
      File(<<"p",".","p","y">>, TRUE, TRUE,
           Some(<< DefNode("FunctionDef", "f", 1, <<>>,
                           arguments(<< arg("a", None), arg("b", None) >>,
                                     << arg("c", None) >>, << "1", "2", "3" >>)) >>),
           <<>>),
      File(<<"x","/","a",".","j","s">>, TRUE, TRUE, None,
           << Line(FALSE, <<"function", "f", "()", "{">>) >>) }

\* the exclude_patterns a caller passes
ExcludeArguments == { None, Some(<<>>), Some(<< <<"x">> >>) }

\* the directory listings of n entries: no path twice
Listings(n) ==
    { s \in [1..n -> FileCatalog] : \A i, j \in 1..n : s[i].path = s[j].path => i = j }

\* the state in which one of the two directory walks is called
InitExtract ==
    /\ pos = 1
    /\ \E n \in 0..MaxFiles : \E listing \in Listings(n) :
          \E exclude_patterns \in ExcludeArguments :
              \E fn \in {"CodeParser.parse_directory", "DocParser.parse_directory"} :
                  call = [fn |-> fn, listing |-> listing,
                          exclude_patterns |-> exclude_patterns]
    /\ pc = IF call.fn = "CodeParser.parse_directory"
            THEN "code_parse_directory" ELSE "doc_parse_directory"
    /\ config = Comparator(default_ignore_patterns, TRUE, TRUE)
    /\ code_results = <<>>
    /\ doc_results = <<>>
    /\ code_functions = <<>>
    /\ code_classes = <<>>
    /\ doc_items = <<>>
    /\ matched_docs = {}
    /\ issues = <<>>
    /\ stats = None

NextExtract == CodeParseDirectory \/ DocParseDirectory

SpecExtract == InitExtract /\ [][NextExtract]_vars

\* the directory walk of the code extractor, or of the doc extractor, has returned
CodeWalked == pc = "walked" /\ call.fn = "CodeParser.parse_directory"

DocsWalked == pc = "walked" /\ call.fn = "DocParser.parse_directory"

\* the extension of a path, in lower case
Extension(path) == Lower(PathSuffix(path))

\* the extensions with an extraction strategy
CodeExtensions ==
    { <<".","p","y">>, <<".","j","s">>, <<".","j","s","x">>, <<".","t","s">>, <<".","t","s","x">>, <<".","m","j","s">> }

DocExtensions == { <<".","m","d">>, <<".","m","a","r","k","d","o","w","n">>, <<".","r","s","t">> }

\* the exclude patterns in force: the caller's when it passes at least one,
\* the extractor's own list otherwise
PatternsInForce ==
    IF call.exclude_patterns # None /\ Len(call.exclude_patterns[1]) > 0
    THEN {call.exclude_patterns[1][i] : i \in DOMAIN call.exclude_patterns[1]}
    ELSE { <<"n","o","d","e","_","m","o","d","u","l","e","s">>,
           <<"_","_","p","y","c","a","c","h","e","_","_">>,
           <<".","g","i","t">>, <<"v","e","n","v">> }
         \cup (IF call.fn = "CodeParser.parse_directory" THEN { <<".","v","e","n","v">> } ELSE {})

\* the entry is a source file the code walk hands to an extractor
SourceFile(file) ==
    /\ file.is_file
    /\ Extension(file.path) \in CodeExtensions
    /\ \A p \in PatternsInForce : ~Contains(file.path, p)

\* the file cannot be read, or it is Python text that does not parse
CannotBeExtracted(file) ==
    \/ ~file.readable
    \/ Extension(file.path) = <<".","p","y">> /\ file.tree = None

\* the results the walk returned for one path
ResultsFor(results, path) == {i \in DOMAIN results : results[i].filepath = path}

\* the code walk has ended: it returned its list or an exception left it
CodeWalkEnded ==
    pc \in {"walked", "raised"} /\ call.fn = "CodeParser.parse_directory"

\* C16 (fail-soft extraction): for every source file that cannot be read or
\* cannot be parsed the walk returns a ParseResult of the file's path with a
\* non-empty errors list and empty functions and classes lists, and it goes
\* on to every remaining file: each source file after it has its result
\* too, so that no failure on one file aborts the directory walk.
C16_FailSoft ==
    CodeWalkEnded =>
        \A i \in DOMAIN call.listing :
            (SourceFile(call.listing[i]) /\ CannotBeExtracted(call.listing[i])) =>
                /\ pc = "walked"
                /\ \E r \in ResultsFor(code_results, call.listing[i].path) :
                      /\ code_results[r].errors # <<>>
                      /\ code_results[r].functions = <<>>
                      /\ code_results[r].classes = <<>>
                /\ \A j \in DOMAIN call.listing :
                      (j > i /\ SourceFile(call.listing[j])) =>
                          ResultsFor(code_results, call.listing[j].path) # {}

\* the exclude patterns the caller passed
CallerPatterns ==
    IF call.exclude_patterns = None THEN {}
    ELSE {call.exclude_patterns[1][i] : i \in DOMAIN call.exclude_patterns[1]}

\* the walk returned a result for every file entry that satisfies the
\* condition and for no other file entry
ResultsExactlyFor(results, extensions, patterns) ==
    \A i \in DOMAIN call.listing :
        call.listing[i].is_file =>
            (ResultsFor(results, call.listing[i].path) # {}
                <=> /\ Extension(call.listing[i].path) \in extensions
                    /\ \A p \in patterns : ~Contains(call.listing[i].path, p))

\* the doc walk has ended
DocWalkEnded ==
    pc \in {"walked", "raised"} /\ call.fn = "DocParser.parse_directory"

\* C17 (directory extraction): the walk returns a result for a file if and
\* only if its extension maps to a supported strategy and none of the
\* exclude patterns passed by the caller is a substring of its path; files
\* with an unsupported extension and files on an excluded path have none.
C17_DirectoryExtraction ==
    /\ CodeWalkEnded =>
          /\ pc = "walked"
          /\ ResultsExactlyFor(code_results, CodeExtensions, CallerPatterns)
    /\ DocWalkEnded =>
          /\ pc = "walked"
          /\ ResultsExactlyFor(doc_results, DocExtensions, CallerPatterns)

\* the methods written in a Python module: the function definitions in the
\* body of a class definition, with the class that owns them
PythonSourceMethods(file) ==
    LET nodes == Walk(file.tree[1])
    IN  UNION { { [name |-> nodes[c].body[d].name, owner |-> nodes[c].name,
                   first |-> nodes[c].body[d].lineno, last |-> nodes[c].body[d].lineno] :
                    d \in { h \in DOMAIN nodes[c].body :
                              nodes[c].body[h].type \in FunctionDefs } } :
                c \in { h \in DOMAIN nodes : nodes[h].type = "ClassDef" } }

\* the class whose body holds line i of a script: the class declared last
\* before line i whose closing brace at column 0 has not come yet
OwningClass(lines, i) ==
    LET open == { j \in 1..(i - 1) :
                    /\ ClassDeclaration(lines[j]) # None
                    /\ \A k \in (j + 1)..(i - 1) :
                          ~(~lines[k].indent /\ lines[k].tokens = << "}" >>) }
    IN  IF open = {} THEN None
        ELSE Some(ClassDeclaration(lines[CHOOSE j \in open : \A h \in open : h <= j])[1])

\* the methods written in a script: the lines NAME (...) { in a class body;
\* first..last are the lines a line number of the method can name
ScriptSourceMethods(file) ==
    { [name |-> MethodShorthandName(file.lines[i].tokens)[1],
       owner |-> OwningClass(file.lines, i)[1],
       first |-> MatchStart(file.lines, i), last |-> i] :
        i \in { h \in DOMAIN file.lines :
                  /\ MethodShorthandName(file.lines[h].tokens) # None
                  /\ OwningClass(file.lines, h) # None } }

SourceMethods(file) ==
    IF ~file.readable THEN {}
    ELSE IF Extension(file.path) = <<".","p","y">>
         THEN (IF file.tree = None THEN {} ELSE PythonSourceMethods(file))
         ELSE ScriptSourceMethods(file)

\* the listing entry a result was extracted from
FileOf(result) ==
    call.listing[CHOOSE i \in DOMAIN call.listing :
                    call.listing[i].path = result.filepath]

\* every FunctionSignature of a result: its functions and its classes' methods
Extracted(result) ==
    {result.functions[i] : i \in DOMAIN result.functions}
    \cup UNION { {result.classes[c].methods[k] : k \in DOMAIN result.classes[c].methods} :
                    c \in DOMAIN result.classes }

\* C18 (top-level functions only): in every ParseResult no method of a class
\* appears in the functions list; each method appears in the methods list of
\* its owning ClassSignature with class_name set to the owning class and
\* is_method true; and is_method == (class_name is not None) holds for every
\* extracted FunctionSignature.
C18_MethodsUnderClass ==
    CodeWalked =>
        \A r \in DOMAIN code_results :
            LET result == code_results[r]
                methods == SourceMethods(FileOf(result))
            IN  /\ \A i \in DOMAIN result.functions :
                      ~\E m \in methods :
                          /\ m.name = result.functions[i].name
                          /\ result.functions[i].line_number \in m.first..m.last
                /\ \A m \in methods :
                      \E c \in DOMAIN result.classes :
                          /\ result.classes[c].name = m.owner
                          /\ \E k \in DOMAIN result.classes[c].methods :
                                /\ result.classes[c].methods[k].name = m.name
                                /\ result.classes[c].methods[k].class_name = Some(m.owner)
                                /\ result.classes[c].methods[k].is_method
                /\ \A f \in Extracted(result) : f.is_method = (f.class_name # None)

-----------------------------------------------------------------------------
(* The reporters. A report is text; it is modelled by its format and the   *)
(* issues it lists, in the order the reporter reads them from the result.  *)

ReportConfig(include_suggestions, min_severity) ==
    [include_suggestions |-> include_suggestions, min_severity |-> min_severity,
     max_issues |-> None]

\* severity_order of _filter_issues, fail_order of main
severity_order(severity) ==
    CASE severity = "CRITICAL" -> 0
      [] severity = "WARNING" -> 1
      [] severity = "INFO" -> 2

\* MarkdownReporter._filter_issues
FilterIssues(report_config, all_issues) ==
    LET filtered == SelectSeq(all_issues, LAMBDA i :
                        severity_order(i.severity) <= severity_order(report_config.min_severity))
    IN  IF report_config.max_issues # None /\ report_config.max_issues[1] # 0
        THEN [k \in 1..(IF report_config.max_issues[1] < Len(filtered)
                        THEN report_config.max_issues[1] ELSE Len(filtered))
                |-> filtered[k]]
        ELSE filtered

\* MarkdownReporter.generate lists the filtered issues
MarkdownGenerate(report_config, result) ==
    [format |-> "markdown", issues |-> FilterIssues(report_config, result.issues)]

\* JSONReporter.generate and GithubActionsReporter.generate list every issue
JSONGenerate(result) == [format |-> "json", issues |-> result.issues]

GithubGenerate(result) == [format |-> "github", issues |-> result.issues]

\* PRCommentReporter.generate lists the critical issues, then the warnings
PRGenerate(result) ==
    [format |-> "pr",
     issues |-> SelectSeq(result.issues, LAMBDA i : i.severity = "CRITICAL")
                \o SelectSeq(result.issues, LAMBDA i : i.severity = "WARNING")]

\* ValueError(f"Unknown format: {format}")
ValueError(format) ==
    [type |-> "ValueError", message |-> << "Unknown format: ", format >>]

\* a generate that falls back to Markdown for a format it does not know
GenerateDefaultMarkdown(report_config, result, format) ==
    [raised |-> None,
     ret |-> Some(CASE format = "json" -> JSONGenerate(result)
                    [] format = "github" -> GithubGenerate(result)
                    [] format = "pr" -> PRGenerate(result)
                    [] OTHER -> MarkdownGenerate(report_config, result))]

\* Reporter.generate: the report it returns or the exception it raises
Generate(report_config, result, format) ==
    IF format = "markdown"
    THEN [raised |-> None, ret |-> Some(MarkdownGenerate(report_config, result))]
    ELSE IF format = "json"
    THEN [raised |-> None, ret |-> Some(JSONGenerate(result))]
    ELSE IF format = "github"
    THEN [raised |-> None, ret |-> Some(GithubGenerate(result))]
    ELSE IF format = "pr"
    THEN [raised |-> None, ret |-> Some(PRGenerate(result))]
    ELSE [raised |-> Some(ValueError(format)), ret |-> None]

\* Reporter.generate called with call.format, "markdown" when it is omitted
ReporterGenerate ==
    /\ pc = "generate"
    /\ LET format == IF call.format = None THEN "markdown" ELSE call.format[1]
           out == Generate(call.report_config, call.result, format)
       IN  /\ call' = [call EXCEPT !.ret = out.ret, !.raised = out.raised]
           /\ pc' = IF out.raised # None THEN "raised" ELSE "returned"
    /\ UNCHANGED <<config, code_results, doc_results, pos, code_functions,
                   code_classes, doc_items, matched_docs, issues, stats>>

\* Reporter.write: the format is inferred from the output's suffix when it
\* is None; the text is written after generate has returned
ReporterWrite ==
    /\ pc = "write"
    /\ LET format == IF call.format = None
                     THEN (IF call.output.suffix = ".json" THEN "json" ELSE "markdown")
                     ELSE call.format[1]
           out == Generate(call.report_config, call.result, format)
       IN  IF out.raised # None
           THEN /\ call' = [call EXCEPT !.raised = out.raised]
                /\ pc' = "raised"
           ELSE /\ call' = [call EXCEPT !.output.text = out.ret]
                /\ pc' = "returned"
    /\ UNCHANGED <<config, code_results, doc_results, pos, code_functions,
                   code_classes, doc_items, matched_docs, issues, stats>>

MaxReportIssues == 2

\* one issue of each severity
ReportIssueCatalog ==
    { Issue("UNDOCUMENTED_FUNCTION", "CRITICAL", <<"f">>, Some("a.py"), Some(1),
            None, None, {}),
      Issue("UNDOCUMENTED_CLASS", "WARNING", <<"C">>, Some("a.py"), Some(2),
            None, None, {}),
      Issue("UNDOCUMENTED_FUNCTION", "INFO", <<"_","g">>, Some("a.py"), Some(3),
            None, None, {}) }

ComparisonResults(n) == { [issues |-> is] : is \in ListsOf(ReportIssueCatalog, n) }

ReportFormats == {"markdown", "json", "github", "pr"}

\* the format argument: omitted, a format of the reporter, or another text
FormatArguments == {None} \cup {Some(f) : f \in ReportFormats \cup {"html", "JSON", ""}}

Severities == {"CRITICAL", "WARNING", "INFO"}

\* the output path of write: its suffix and the text of the file, None when
\* there is no file yet
Outputs ==
    { [suffix |-> s, text |-> t] :
        s \in {".json", ".md"},
        t \in {None, Some([format |-> "markdown", issues |-> <<>>])} }

InitReport ==
    /\ pc \in {"generate", "write"}
    /\ pos = 0
    /\ \E n \in 0..MaxReportIssues : \E result \in ComparisonResults(n) :
          \E format \in FormatArguments : \E min_severity \in Severities :
              IF pc = "generate"
              THEN call = [fn |-> "Reporter.generate",
                           report_config |-> ReportConfig(TRUE, min_severity),
                           result |-> result, format |-> format,
                           ret |-> None, raised |-> None]
              ELSE \E output \in Outputs :
                      call = [fn |-> "Reporter.write",
                              report_config |-> ReportConfig(TRUE, min_severity),
                              result |-> result, format |-> format, output |-> output,
                              ret |-> None, raised |-> None]
    /\ config = Comparator(default_ignore_patterns, TRUE, TRUE)
    /\ code_results = <<>>
    /\ doc_results = <<>>
    /\ code_functions = <<>>
    /\ code_classes = <<>>
    /\ doc_items = <<>>
    /\ matched_docs = {}
    /\ issues = <<>>
    /\ stats = None

NextReport == ReporterGenerate \/ ReporterWrite

SpecReport == InitReport /\ [][NextReport]_vars

\* the call names a format that is none of the reporter's
UnknownFormatGiven == call.format # None /\ call.format[1] \notin ReportFormats

\* C19 (unknown format): Reporter.generate called with a format other than
\* 'markdown', 'json', 'github' or 'pr' raises an error whose message names
\* the format value and returns no report; Reporter.write with such a format
\* raises the same way and leaves the output file as it was.
C19_UnknownFormat ==
    [][ (pc \in {"generate", "write"} /\ UnknownFormatGiven) =>
            /\ pc' = "raised"
            /\ call'.raised # None
            /\ \E i \in DOMAIN call'.raised[1].message :
                  call'.raised[1].message[i] = call.format[1]
            /\ call'.ret = None
            /\ (call.fn = "Reporter.write" => call'.output = call.output) ]_vars

\* write was called with format 'html' on an existing file and raised
C19_Witness ==
    /\ pc = "raised"
    /\ call.fn = "Reporter.write"
    /\ call.format = Some("html")
    /\ call.output.text # None
    /\ call.raised = Some(ValueError("html"))
    /\ call.result.issues # <<>>

-----------------------------------------------------------------------------
(* The command line: main validates the paths, walks both directories,     *)
(* runs compare, writes or prints the report and decides the exit code.    *)
(* The lists the two walks return are inputs of the model; compare runs    *)
(* through its own steps between MainStart and MainReport.                 *)

\* severity_map of main
severity_map(level) ==
    CASE level = "info" -> "INFO"
      [] level = "warning" -> "WARNING"
      [] level = "critical" -> "CRITICAL"

\* an exit decision taken over the issues the report keeps
ExitCodeOverReported(parsed, result) ==
    IF /\ parsed.fail_on # "none"
       /\ \E i \in DOMAIN result.issues :
             /\ severity_order(result.issues[i].severity)
                   <= severity_order(severity_map(parsed.fail_on))
             /\ severity_order(result.issues[i].severity)
                   <= severity_order(severity_map(parsed.min_severity))
    THEN 1 ELSE 0

\* lines 209-220: 1 at the first issue of the result at the fail level or
\* above it, 0 when the loop ends or --fail-on is none
ExitCode(parsed, result) ==
    IF /\ parsed.fail_on # "none"
       /\ \E i \in DOMAIN result.issues :
             severity_order(result.issues[i].severity)
                <= severity_order(severity_map(parsed.fail_on))
    THEN 1 ELSE 0

\* lines 138-184: the paths are validated; a missing path ends main with 1,
\* otherwise the walks' results and the Comparator are handed to compare
MainStart ==
    /\ pc = "main"
    /\ IF ~call.code_path_exists \/ ~call.docs_path_exists
       THEN /\ call' = [call EXCEPT !.ret = Some(1)]
            /\ pc' = "exited"
            /\ UNCHANGED <<config, code_results, doc_results>>
       ELSE /\ code_results' = call.code_results
            /\ doc_results' = call.doc_results
            /\ config' = Comparator(call.ignore_patterns, ~call.parsed.no_docstrings, TRUE)
            /\ pc' = "start"
            /\ UNCHANGED call
    /\ UNCHANGED <<pos, code_functions, code_classes, doc_items, matched_docs,
                   issues, stats>>

\* lines 186-220: compare has returned; the report goes to the output file
\* or to stdout and the exit code is decided
MainReport ==
    /\ pc = "done"
    /\ call # None /\ call.fn = "main"
    /\ LET result == [issues |-> issues]
           report_config == ReportConfig(~call.parsed.no_suggestions,
                                         severity_map(call.parsed.min_severity))
           report == Generate(report_config, result, call.parsed.format).ret
       IN  call' = [call EXCEPT
                      !.output = IF call.parsed.output THEN report ELSE @,
                      !.stdout = IF call.parsed.output THEN @ ELSE report,
                      !.ret = Some(ExitCode(call.parsed, result))]
    /\ pc' = "exited"
    /\ UNCHANGED <<config, code_results, doc_results, pos, code_functions,
                   code_classes, doc_items, matched_docs, issues, stats>>

MaxMainItems == 2

\* undocumented functions that give a CRITICAL and an INFO issue
MainFunctionCatalog ==
    { FunctionSignature(<<"f">>, 1, <<>>, None, None, << <<"A","p","i">> >>),
      FunctionSignature(<<"_","g">>, 2, <<>>, None, None, <<>>) }

\* an undocumented class, a WARNING issue
MainClassCatalog == { ClassSignature(<<"C">>, 3, None, <<>>, <<>>) }

\* a documented function the code does not have
MainDocCatalog == { DocumentedItem(<<"k">>, 1, function, None, <<>>, FALSE) }

\* the parsed command line
Arguments ==
    [format : ReportFormats,
     min_severity : {"info", "warning", "critical"},
     fail_on : {"info", "warning", "critical", "none"},
     output : BOOLEAN,
     no_suggestions : {FALSE},
     no_docstrings : {FALSE}]

InitMain ==
    /\ pc = "main"
    /\ pos = 0
    /\ \E parsed \in Arguments :
       \E exists \in {<<TRUE, TRUE>>, <<FALSE, TRUE>>, <<TRUE, FALSE>>} :
       \E a \in 0..MaxMainItems : \E b \in 0..1 :
       \E cr \in CodeResults(MainFunctionCatalog, MainClassCatalog, a) :
       \E dr \in DocResults(MainDocCatalog, b) :
          call = [fn |-> "main", parsed |-> parsed,
                  code_path_exists |-> exists[1], docs_path_exists |-> exists[2],
                  ignore_patterns |-> <<>>,
                  code_results |-> cr, doc_results |-> dr,
                  output |-> None, stdout |-> None, ret |-> None]
    /\ config = Comparator(default_ignore_patterns, TRUE, TRUE)
    /\ code_results = <<>>
    /\ doc_results = <<>>
    /\ code_functions = <<>>
    /\ code_classes = <<>>
    /\ doc_items = <<>>
    /\ matched_docs = {}
    /\ issues = <<>>
    /\ stats = None

NextMain ==
    MainStart \/ BuildIndexes \/ CheckFunction \/ CheckClass \/ CheckDocItem \/ MainReport

SpecMain == InitMain /\ [][NextMain]_vars

\* CRITICAL > WARNING > INFO
SeverityRank(severity) ==
    CASE severity = "CRITICAL" -> 3
      [] severity = "WARNING" -> 2
      [] severity = "INFO" -> 1

\* the rank of a --fail-on level
FailRank(level) ==
    CASE level = "critical" -> 3
      [] level = "warning" -> 2
      [] level = "info" -> 1

\* main has ended on existing code and docs paths
MainExited ==
    /\ pc = "exited"
    /\ call.fn = "main"
    /\ call.code_path_exists /\ call.docs_path_exists

\* C20 (exit code): for existing code and docs paths main returns 1 if and
\* only if --fail-on is not 'none' and the comparison result holds at least
\* one issue whose severity is at the --fail-on level or higher, and 0
\* otherwise; every issue of the result counts, whatever --min-severity is.
C20_ExitCode ==
    MainExited =>
        call.ret = Some(IF /\ call.parsed.fail_on # "none"
                           /\ \E i \in DOMAIN issues :
                                 SeverityRank(issues[i].severity)
                                    >= FailRank(call.parsed.fail_on)
                        THEN 1 ELSE 0)

\* main returned 1 for a WARNING issue with --fail-on warning although
\* --min-severity critical keeps that issue out of the Markdown report
C20_Witness ==
    /\ MainExited
    /\ call.parsed.fail_on = "warning"
    /\ call.parsed.min_severity = "critical"
    /\ call.parsed.format = "markdown"
    /\ call.ret = Some(1)
    /\ \A i \in DOMAIN issues : issues[i].severity # "CRITICAL"
    /\ call.stdout # None /\ call.stdout[1].issues = <<>>

\* the report main has written to the output file or printed
RenderedReport == IF call.parsed.output THEN call.output[1] ELSE call.stdout[1]

\* C21 (minimum severity): with --min-severity S the report generated by
\* the command line lists only issues whose severity is at or above S, for
\* every output format: no issue with severity below S is in the output.
C21_MinSeverity ==
    MainExited =>
        \A i \in DOMAIN RenderedReport.issues :
            SeverityRank(RenderedReport.issues[i].severity)
                >= FailRank(call.parsed.min_severity)

-----------------------------------------------------------------------------
(* compare_paths and main as a pipeline: the code walk, the doc walk, then *)
(* the call of compare on the two lists the walks returned.                *)

\* the exclude list main builds when neither the config file nor --exclude
\* names a pattern
cli_default_exclude ==
    << <<"n","o","d","e","_","m","o","d","u","l","e","s">>, <<"_","_","p","y","c","a","c","h","e","_","_">>, <<".","g","i","t">>, <<"v","e","n","v">>, <<".","v","e","n","v">>, <<"d","i","s","t">>, <<"b","u","i","l","d">> >>

\* a doc walk that starts while the code walk is still at an entry
WalkDocsEarly ==
    /\ pc = "code_parse_directory"
    /\ call.walk = "code"
    /\ call' = [call EXCEPT !.listing = call.doc_listing, !.walk = "docs"]
    /\ pc' = "doc_parse_directory"
    /\ pos' = 1
    /\ UNCHANGED <<config, code_results, doc_results, code_functions, code_classes,
                   doc_items, matched_docs, issues, stats>>

\* code_parser.parse_directory has returned: doc_parser.parse_directory is
\* called (comparator.py:367-368, cli.py:163-172)
WalkDocs ==
    /\ pc = "walked"
    /\ call.walk = "code"
    /\ call' = [call EXCEPT !.listing = call.doc_listing, !.walk = "docs"]
    /\ pc' = "doc_parse_directory"
    /\ pos' = 1
    /\ UNCHANGED <<config, code_results, doc_results, code_functions, code_classes,
                   doc_items, matched_docs, issues, stats>>

\* doc_parser.parse_directory has returned: compare is called on the two
\* lists (comparator.py:370, cli.py:184)
CallCompare ==
    /\ pc = "walked"
    /\ call.walk = "docs"
    /\ pc' = "start"
    /\ pos' = 0
    /\ UNCHANGED <<config, code_results, doc_results, code_functions, code_classes,
                   doc_items, matched_docs, issues, stats, call>>

MaxPipelineFiles == 2

FileAt(path) == CHOOSE f \in FileCatalog : f.path = path

CodeDirectory ==
    { FileAt(<<"a",".","p","y">>), FileAt(<<"b",".","p","y">>), FileAt(<<"v","e","n","v","/","a",".","p","y">>), FileAt(<<"a",".","m","d">>) }

DocDirectory == { FileAt(<<"a",".","m","d">>), FileAt(<<"c",".","M","D">>), FileAt(<<"a",".","t","x","t">>) }

\* the listings of up to n entries of a directory
DirectoryListings(directory, n) ==
    UNION { { l \in ListsOf(directory, k) :
                \A i, j \in 1..k : i # j => l[i].path # l[j].path } : k \in 0..n }

\* compare_paths passes no exclude patterns; main passes its own list
InitPipeline ==
    /\ pc = "code_parse_directory"
    /\ pos = 1
    /\ \E code_listing \in DirectoryListings(CodeDirectory, MaxPipelineFiles) :
       \E doc_listing \in DirectoryListings(DocDirectory, MaxPipelineFiles) :
       \E fn \in {"compare_paths", "main"} :
       \E exclude_patterns \in IF fn = "compare_paths" THEN {None}
                               ELSE {Some(cli_default_exclude), Some(<< <<"a",".","m">> >>)} :
          call = [fn |-> fn, walk |-> "code", listing |-> code_listing,
                  code_listing |-> code_listing, doc_listing |-> doc_listing,
                  exclude_patterns |-> exclude_patterns]
    /\ config = Comparator(default_ignore_patterns, TRUE, TRUE)
    /\ code_results = <<>>
    /\ doc_results = <<>>
    /\ code_functions = <<>>
    /\ code_classes = <<>>
    /\ doc_items = <<>>
    /\ matched_docs = {}
    /\ issues = <<>>
    /\ stats = None

NextPipeline == CodeParseDirectory \/ WalkDocs \/ DocParseDirectory \/ CallCompare

SpecPipeline == InitPipeline /\ [][NextPipeline]_vars

\* what a complete code walk, and a complete doc walk, of a listing returns
CompleteCodeWalk(listing, patterns) ==
    LET kept == SelectSeq(listing, LAMBDA f :
                    f.is_file /\ ~Excluded(f.path, patterns) /\ CodeParseFile(f) # None)
    IN  [i \in DOMAIN kept |-> CodeParseFile(kept[i])[1]]

CompleteDocWalk(listing, patterns) ==
    LET kept == SelectSeq(listing, LAMBDA f :
                    f.is_file /\ ~Excluded(f.path, patterns) /\ DocParseFile(f) # None)
    IN  [i \in DOMAIN kept |-> DocParseFile(kept[i])[1]]

\* C22 (full barrier): in every execution of compare_paths and of main,
\* compare starts only after the complete code extraction pass and the
\* complete doc extraction pass have finished: the lists it is called on are
\* the results of the two whole walks, never a part of them.
C22_FullBarrier ==
    (pc = "start" /\ call # None /\ call.fn \in {"compare_paths", "main"}) =>
        /\ code_results =
              CompleteCodeWalk(call.code_listing,
                               ExcludePatterns(call.exclude_patterns, code_default_exclude))
        /\ doc_results =
              CompleteDocWalk(call.doc_listing,
                              ExcludePatterns(call.exclude_patterns, doc_default_exclude))

\* compare is called after walks that each returned two results
C22_Witness ==
    /\ pc = "start"
    /\ call.fn = "compare_paths"
    /\ Len(call.code_listing) = 2 /\ Len(call.doc_listing) = 2
    /\ Len(code_results) = 2 /\ Len(doc_results) = 2

-----------------------------------------------------------------------------
(* JavaScriptParser._parse_params on a parameter string                    *)

\* str.strip(): white space off both ends
RECURSIVE Strip(_)
Strip(s) ==
    IF s = <<>> THEN s
    ELSE IF s[1] = " " THEN Strip(SubSeq(s, 2, Len(s)))
    ELSE IF s[Len(s)] = " " THEN Strip(SubSeq(s, 1, Len(s) - 1))
    ELSE s

\* s.split(ch, 1): the text before the first ch and the text after it; the
\* whole text alone when ch is not in it
SplitOnce(s, ch) ==
    IF \E i \in DOMAIN s : s[i] = ch
    THEN LET i == CHOOSE k \in DOMAIN s : s[k] = ch /\ \A h \in 1..(k - 1) : s[h] # ch
         IN  << SubSeq(s, 1, i - 1), SubSeq(s, i + 1, Len(s)) >>
    ELSE << s >>

\* lines 255-269: the loop over the characters with the depth counter
RECURSIVE SplitTopLevel(_, _, _, _)
SplitTopLevel(params_str, params, depth, current) ==
    IF params_str = <<>>
    THEN (IF current # <<>> THEN Append(params, Strip(current)) ELSE params)
    ELSE LET char == Head(params_str)
             rest == Tail(params_str)
         IN  IF char \in {"(", "[", "{"}
             THEN SplitTopLevel(rest, params, depth + 1, Append(current, char))
             ELSE IF char \in {")", "]", "}"}
             THEN SplitTopLevel(rest, params, depth - 1, Append(current, char))
             ELSE IF char = "," /\ depth = 0
             THEN SplitTopLevel(rest, Append(params, Strip(current)), depth, <<>>)
             ELSE SplitTopLevel(rest, params, depth, Append(current, char))

\* lines 272-289: one token: the colon is looked for first, and the
\* default only in the text that is left as the name
ParseParam(param) ==
    LET colon == SplitOnce(param, ":")
        has_colon == Len(colon) = 2
        name == IF has_colon THEN Strip(colon[1]) ELSE param
        type_hint == IF has_colon THEN Some(Strip(colon[2])) ELSE None
        eq == SplitOnce(name, "=")
    IN  IF Len(eq) = 2
        THEN Parameter(Strip(eq[1]), type_hint, Some(Strip(eq[2])))
        ELSE Parameter(name, type_hint, None)

\* JavaScriptParser._parse_params
ParseParams(params_str) ==
    IF params_str = <<>> THEN <<>>
    ELSE LET params == SelectSeq(SplitTopLevel(params_str, <<>>, 0, <<>>),
                                 LAMBDA p : p # <<>>)
         IN  [i \in DOMAIN params |-> ParseParam(params[i])]

\* the call of _parse_params
ParseParamsCall ==
    /\ pc = "_parse_params"
    /\ call' = [call EXCEPT !.ret = Some(ParseParams(call.params_str))]
    /\ pc' = "returned"
    /\ UNCHANGED <<config, code_results, doc_results, pos, code_functions,
                   code_classes, doc_items, matched_docs, issues, stats>>

MaxParams == 2

MaxRawChars == 3

\* parameter tokens: a name, an optional type, an optional default; a type
\* and a default may hold a bracketed comma
TokenCatalog ==
    { Parameter(n, t, d) :
        n \in { <<"a">>, <<"b">> },
        t \in { None, Some(<<"T">>), Some(<<"[","T",",","T","]">>) },
        d \in { None, Some(<<"1">>), Some(<<"(","1",",","2",")">>) } }

\* the text of a token: name, name: type, name = default, name: type = default
RenderToken(token) ==
    token.name
    \o (IF token.type_hint # None THEN <<":"," ">> \o token.type_hint[1] ELSE <<>>)
    \o (IF token.default # None THEN <<" ","="," ">> \o token.default[1] ELSE <<>>)

\* the tokens joined by ", "
RECURSIVE RenderParams(_)
RenderParams(tokens) ==
    IF tokens = <<>> THEN <<>>
    ELSE IF Len(tokens) = 1 THEN RenderToken(tokens[1])
    ELSE RenderToken(tokens[1]) \o <<","," ">> \o RenderParams(Tail(tokens))

TokenLists == UNION { ListsOf(TokenCatalog, n) : n \in 0..MaxParams }

\* other parameter text: empty tokens, white space, unbalanced brackets
RawStrings ==
    UNION { ListsOf({"a", ",", " ", "(", ")", "="}, n) : n \in 0..MaxRawChars }

InitParams ==
    /\ pc = "_parse_params"
    /\ pos = 0
    /\ \E params_str \in {RenderParams(t) : t \in TokenLists} \cup RawStrings :
          call = [fn |-> "_parse_params", params_str |-> params_str, ret |-> None]
    /\ config = Comparator(default_ignore_patterns, TRUE, TRUE)
    /\ code_results = <<>>
    /\ doc_results = <<>>
    /\ code_functions = <<>>
    /\ code_classes = <<>>
    /\ doc_items = <<>>
    /\ matched_docs = {}
    /\ issues = <<>>
    /\ stats = None

NextParams == ParseParamsCall

SpecParams == InitParams /\ [][NextParams]_vars

\* C23 (parameter strings): _parse_params splits only at commas at bracket
\* depth 0 and splits each token into name, optional type and optional
\* default: for a string written from tokens of the forms name, name: type,
\* name = default and name: type = default the Parameters returned carry
\* exactly those names, type hints and defaults, in declaration order.
C23_ParseParams ==
    (pc = "returned" /\ call.fn = "_parse_params") =>
        \A tokens \in TokenLists :
            call.params_str = RenderParams(tokens) => call.ret = Some(tokens)

-----------------------------------------------------------------------------
(* PythonParser._parse_function on one function definition                 *)

\* the call of _parse_function: the signature, or the IndexError
ParseFunctionCall ==
    /\ pc = "_parse_function"
    /\ IF Parameters(call.node) = None
       THEN /\ call' = [call EXCEPT !.raised = Some("IndexError")]
            /\ pc' = "raised"
       ELSE /\ call' = [call EXCEPT
                          !.ret = Some(ParseFunction(call.node, "a.py", call.class_name))]
            /\ pc' = "returned"
    /\ UNCHANGED <<config, code_results, doc_results, pos, code_functions,
                   code_classes, doc_items, matched_docs, issues, stats>>

MaxPosOnlyArgs == 2

MaxArgs == 3

ArgNames == << "a", "b", "c", "d", "e", "f" >>

DefaultTexts == << "1", "2", "3", "4", "5", "6" >>

\* def f(p positional-only arguments, /, a arguments), the last d of them
\* all with a default
FunctionDefNode(p, a, d, annotation) ==
    DefNode("FunctionDef", "f", 1, <<>>,
            arguments([i \in 1..p |-> arg(ArgNames[i], annotation)],
                      [i \in 1..a |-> arg(ArgNames[p + i], annotation)],
                      [i \in 1..d |-> DefaultTexts[i]]))

InitParseFunction ==
    /\ pc = "_parse_function"
    /\ pos = 0
    /\ \E p \in 0..MaxPosOnlyArgs : \E a \in 0..MaxArgs : \E d \in 0..(p + a) :
       \E annotation \in {None, Some("int")} : \E class_name \in {None, Some("C")} :
          call = [fn |-> "_parse_function", node |-> FunctionDefNode(p, a, d, annotation),
                  class_name |-> class_name, ret |-> None, raised |-> None]
    /\ config = Comparator(default_ignore_patterns, TRUE, TRUE)
    /\ code_results = <<>>
    /\ doc_results = <<>>
    /\ code_functions = <<>>
    /\ code_classes = <<>>
    /\ doc_items = <<>>
    /\ matched_docs = {}
    /\ issues = <<>>
    /\ stats = None

NextParseFunction == ParseFunctionCall

SpecParseFunction == InitParseFunction /\ [][NextParseFunction]_vars

\* the call of _parse_function has ended
ParseFunctionEnded == pc \in {"returned", "raised"} /\ call.fn = "_parse_function"

\* the defaults sit on the last parameters, in order
DefaultsOnLast(params, defaults) ==
    LET offset == Len(params) - Len(defaults)
    IN  \A i \in 0..(Len(params) - 1) :
           /\ (params[i + 1].default # None) <=> (i >= offset)
           /\ (i >= offset) => params[i + 1].default = Some(defaults[i - offset + 1])

\* C24 (defaults alignment): the defaults list of a function is never
\* longer than its extracted parameter list, and with
\* offset = len(params) - len(defaults) parameter i carries a default if and
\* only if i >= offset, namely the (i - offset)-th default.
C24_DefaultsAlignment ==
    ParseFunctionEnded =>
        /\ pc = "returned"
        /\ Len(call.node.args.defaults) <= Len(call.ret[1].parameters)
        /\ DefaultsOnLast(call.ret[1].parameters, call.node.args.defaults)

-----------------------------------------------------------------------------
(* compare: orphaned documentation, ignored entities and the stats *)

\* the doc item is the one the name-matching policy gives for a key of the
\* function index or of the class index
PairedWithCode(item) ==
    \/ \E f \in DOMAIN code_functions :
          FindDocItem(code_functions[f].k, doc_items) = Some(item)
    \/ \E c \in DOMAIN code_classes :
          FindDocItem(code_classes[c].k, doc_items) = Some(item)

\* C25 (no false orphan): MISSING_FROM_CODE is never raised for a doc item
\* that the name-matching policy pairs with a code function, method or class
\* of the input (by exact name, by the unqualified suffix of a qualified
\* name, or case-insensitively), also when an ignore pattern excludes that
\* code entity.
C25_NoMissingForPaired ==
    pc = "done" =>
        \A d \in DOMAIN doc_items :
            PairedWithCode(doc_items[d].v) =>
                \A i \in DOMAIN issues :
                    ~(/\ issues[i].drift_type = "MISSING_FROM_CODE"
                      /\ issues[i].item_name = doc_items[d].k)

\* the short names the default patterns are written for
SpecialName(name) ==
    \/ name \in { <<"_","_","i","n","i","t","_","_">>, <<"_","_","s","t","r","_","_">>, <<"_","_","r","e","p","r","_","_">>, <<"_","_","e","q","_","_">>, <<"_","_","h","a","s","h","_","_">> }
    \/ (Len(name) >= 1 /\ name[1] = "_")

\* C26 (special methods): with the default ignore patterns a class method
\* whose short name is one of the special names or starts with '_' is
\* ignored: compare emits no UNDOCUMENTED_FUNCTION for such a method held
\* in the methods list of a ClassSignature.
C26_SpecialMethodsIgnored ==
    (pc = "done" /\ config.ignore_patterns = default_ignore_patterns) =>
        \A r \in DOMAIN code_results : \A c \in DOMAIN code_results[r].classes :
            \A k \in DOMAIN code_results[r].classes[c].methods :
                LET method == code_results[r].classes[c].methods[k]
                IN  SpecialName(method.name) =>
                        \A i \in DOMAIN issues :
                            ~(/\ issues[i].drift_type = "UNDOCUMENTED_FUNCTION"
                              /\ issues[i].code_line = Some(method.line_number)
                              /\ issues[i].item_name
                                    = method.class_name[1] \o <<".">> \o method.name)

\* lines 122-144 as one pass: the matched names and the issues of the loop
\* over the function index from entry i on
RECURSIVE FunctionLoop(_, _, _, _)
FunctionLoop(functions, cfg, items, i) ==
    IF i > Len(functions) THEN [matched |-> {}, issues |-> <<>>]
    ELSE LET step == FunctionStep(functions[i].k, functions[i].v, cfg, items)
             rest == FunctionLoop(functions, cfg, items, i + 1)
         IN  [matched |-> step.matched \cup rest.matched,
              issues |-> step.issues \o rest.issues]

\* lines 146-166 as one pass
RECURSIVE ClassLoop(_, _, _, _)
ClassLoop(classes, cfg, items, i) ==
    IF i > Len(classes) THEN [matched |-> {}, issues |-> <<>>]
    ELSE LET step == ClassStep(classes[i].k, classes[i].v, cfg, items)
             rest == ClassLoop(classes, cfg, items, i + 1)
         IN  [matched |-> step.matched \cup rest.matched,
              issues |-> step.issues \o rest.issues]

\* lines 168-182 as one pass
RECURSIVE OrphanLoop(_, _, _, _, _)
OrphanLoop(items, matched, functions, classes, i) ==
    IF i > Len(items) THEN <<>>
    ELSE OrphanStep(items[i].k, items[i].v, matched, functions, classes)
         \o OrphanLoop(items, matched, functions, classes, i + 1)

\* the issues of Comparator(cfg).compare(results, docs)
CompareIssues(cfg, results, docs) ==
    LET functions == IndexFunctions(results)
        classes == IndexClasses(results)
        items == IndexDocItems(docs)
        f == FunctionLoop(functions, cfg, items, 1)
        c == ClassLoop(classes, cfg, items, 1)
    IN  f.issues \o c.issues
        \o OrphanLoop(items, f.matched \cup c.matched, functions, classes, 1)

\* C27 (command line and default Comparator): when no ignore_patterns are
\* configured, a run of the command line uses the ignore patterns of a
\* default-constructed Comparator(): for the same extraction results its
\* comparison gives the issues Comparator().compare gives.
C27_DefaultIgnorePatterns ==
    (MainExited /\ call.ignore_patterns = <<>> /\ ~call.parsed.no_docstrings) =>
        issues = CompareIssues(Comparator(default_ignore_patterns, TRUE, TRUE),
                               code_results, doc_results)

\* C28: after any comparison the stats satisfy 0 <= matched <=
\* total_documented and matched <= total_functions + total_classes, hence
\* undocumented >= 0.
C28_StatsBounds ==
    Done =>
        /\ 0 <= stats[1].matched
        /\ stats[1].matched <= stats[1].total_documented
        /\ stats[1].matched <= stats[1].total_functions + stats[1].total_classes
        /\ stats[1].undocumented >= 0

\* a comparison in which every index entry found its own doc item, so that
\* matched reaches both of its upper bounds and undocumented is 0
C28_Witness ==
    /\ Done
    /\ stats[1].matched >= 1
    /\ stats[1].matched = stats[1].total_functions + stats[1].total_classes
    /\ stats[1].undocumented = 0
    /\ stats[1].total_classes >= 1

\* the index entries for which compare looked up and found no doc item: the
\* entry is skipped by an ignore pattern, or _find_doc_item returns None
EntriesWithoutDocItem(index) ==
    {i \in DOMAIN index :
        \/ ShouldIgnore(index[i].k, config.ignore_patterns)
        \/ FindDocItem(index[i].k, doc_items) = None}

\* C29: stats.undocumented equals the number of code function and class
\* index entries for which no doc item was found: an entry that has a
\* matching doc item is not counted, an entry without one is counted once.
C29_UndocumentedCount ==
    Done =>
        stats[1].undocumented =
            Cardinality(EntriesWithoutDocItem(code_functions))
            + Cardinality(EntriesWithoutDocItem(code_classes))

\* C30: compare runs the drift checks of each code function at most once:
\* the issue list never holds two issues with the same drift_type, severity,
\* item_name and code location, also for a function that is keyed in the
\* index under both its qualified and its short name.
C30_NoDuplicateIssue ==
    \A i, j \in DOMAIN issues :
        (/\ i # j
         /\ issues[i].code_location # None
         /\ issues[i].drift_type = issues[j].drift_type
         /\ issues[i].severity = issues[j].severity
         /\ issues[i].item_name = issues[j].item_name
         /\ issues[i].code_location = issues[j].code_location) =>
            issues[i].code_line # issues[j].code_line

====
